---- MODULE Spec2Model ----
(***************************************************************************)
(* Timeline editor of ai-animator: the segment collection held by App      *)
(* (src/App.tsx), the drag controller and the playback tracker of          *)
(* TimelineEditor (src/components/TimelineEditor.tsx) and the generation   *)
(* pipeline of App.                                                        *)
(*                                                                         *)
(* Times are JavaScript numbers (seconds).  They are modelled in fixed     *)
(* point: one tick is 1/TicksPerSecond of a second, so that the            *)
(* one-decimal rounding Math.round(x * 10) / 10 is a real operation.       *)
(***************************************************************************)
EXTENDS Integers, Sequences, FiniteSets, TLC

----------------------------------------------------------------------------
(* Numbers *)

TicksPerSecond == 20

S(n) == n * TicksPerSecond

\* one decimal place of a second, in ticks
Tenth == TicksPerSecond \div 10

Max(a, b) == IF a >= b THEN a ELSE b

Min(a, b) == IF a <= b THEN a ELSE b

\* Math.round(x * 10) / 10 : nearest tenth, halves towards +infinity
Round1(x) == ((2 * x + Tenth) \div (2 * Tenth)) * Tenth

----------------------------------------------------------------------------
(* Program constants, in seconds *)

DefaultDuration == 5

MinDuration == 1

MaxDuration == 30

----------------------------------------------------------------------------
(* Bounds of the exploration *)

\* number of committed edits (pointer moves and duration button presses)
MaxEdits == 3

\* number of committed edits while playback positions are explored
MaxPlaybackEdits == 1

\* number of runs of the automatic pipeline (the first one and the resumed ones)
MaxRuns == 2

\* number of manually started generation requests in flight at the same time
MaxManualInFlight == 2

\* the segments returned by one analysis, in the order the model returned them
SegmentIds == <<"s1", "s2">>

\* durations of the uploaded video (6.25 s and 60 s)
VideoDurations == {S(6) + 5, S(60)}

\* timestamps the analysis may assign (0 s, 6 s, 10 s), not after the video's end
TimestampChoices(total) == {t \in {S(0), S(6), S(10)} : t <= total}

\* pointer displacements of a drag, already converted to time
\* (deltaX / trackWidth * duration)
DeltaChoices == {0 - S(70), 0 - S(1), S(1), S(20), S(70)}

\* playback positions reported by the video element
TimeChoices(total) == {t \in {S(0), S(4), S(6), S(10), S(12)} : t <= total}

Null == "null"

\* useState<SegmentDragState | null>(null): the value when no drag is active
NoDrag == [segmentId |-> Null, mode |-> Null, initialTimestamp |-> 0, initialDuration |-> 0]

----------------------------------------------------------------------------
VARIABLES
    segments,      \* App: analysis.segments (<<>> while analysis is null)
    duration,      \* TimelineEditor: duration of the base video
    segmentDrag,   \* TimelineEditor: drag state, NoDrag when no drag
    currentTime,   \* TimelineEditor: playback position
    activeSegment, \* TimelineEditor: id of the active segment, Null if none
    edits,         \* history: number of edits committed so far
    tsUpdated,     \* history: handleUpdateSegmentTimestamp ran since the analysis
    lastEvent,     \* history: the handler that ran last, with its inputs
    pipelineState, \* App: pipelineState
    stopGenerationRef, \* App: stopGenerationRef.current
    runs,          \* the invocations of runAutomaticPipeline, in the order they started
    requests,      \* the invocations of handleGenerateSegmentImage / Video in flight
    isBatchProcessing, \* App: isBatchProcessing
    chromaSettings, \* VeoGenerator: chromaSettings (the ChromaKeySettings in use)
    imageData,     \* the data of the ImageData in work, RGBA bytes
    applications,  \* history: the calls of applyChromaKey on imageData so far
    overlayVideo,  \* TimelineEditor: the element of overlayVideoRef, its source and clock
    assetCalls,    \* geminiService: the invocations of generateImageAsset, in the order they started
    discarded,     \* history: the runs started for an analysis that Reset has discarded
    appActiveSegment \* App: activeSegment, the copy of the segment in the detail view

\* the state of the session of App
sessionVars == <<discarded, appActiveSegment>>

\* the state of the calls of the generation service
serviceVars == <<assetCalls>>

\* the state of the chroma key
chromaVars == <<chromaSettings, imageData, applications>>

\* the state of the timeline editor
editorVars == <<duration, segmentDrag, currentTime, activeSegment, edits, tsUpdated>>

\* the state of the generation pipeline
generationVars == <<pipelineState, stopGenerationRef, runs, requests>>

vars == <<segments, duration, segmentDrag, currentTime, activeSegment, edits, tsUpdated,
          lastEvent, pipelineState, stopGenerationRef, runs, requests, isBatchProcessing, chromaVars, serviceVars, sessionVars,
          overlayVideo>>

NoEvent == [op |-> "none", id |-> Null, delta |-> 0]

Event(op, id, delta) == [op |-> op, id |-> id, delta |-> delta]

----------------------------------------------------------------------------
(* Segment collection *)

\* analyzeVideoContent: the post-processing of one segment of the response
NewSegment(id, ts) ==
    [id |-> id, timestamp |-> ts, duration |-> S(DefaultDuration), status |-> "idle",
     imageUrl |-> Null, videoUrl |-> Null, error |-> Null, generationProgress |-> 0,
     prompt |-> "prompt of the analysis", animationPrompt |-> "motion of the analysis"]

\* segment.duration || 5
SegDuration(s) == IF s.duration = 0 THEN S(DefaultDuration) ELSE s.duration

\* analysis.segments.find(s => s.id === id) as an index, 0 when absent
IndexOf(segs, id) ==
    IF \E i \in DOMAIN segs : segs[i].id = id
    THEN CHOOSE i \in DOMAIN segs : segs[i].id = id /\ \A j \in 1..(i - 1) : segs[j].id # id
    ELSE 0

Find(segs, id) == segs[IndexOf(segs, id)]

\* InsertSorted, except that x goes in front of the elements that compare equal
InsertSortedInFront(sorted, x) ==
    LET k == Cardinality({i \in DOMAIN sorted : sorted[i].timestamp - x.timestamp < 0})
    IN  SubSeq(sorted, 1, k) \o <<x>> \o SubSeq(sorted, k + 1, Len(sorted))

\* insertion of x into a sorted sequence behind every element that does not
\* compare greater: Array.prototype.sort is stable
InsertSorted(sorted, x) ==
    LET k == Cardinality({i \in DOMAIN sorted : sorted[i].timestamp - x.timestamp <= 0})
    IN  SubSeq(sorted, 1, k) \o <<x>> \o SubSeq(sorted, k + 1, Len(sorted))

\* updatedSegments.sort((a, b) => a.timestamp - b.timestamp)
RECURSIVE SortByTimestamp(_)
SortByTimestamp(segs) ==
    IF segs = <<>> THEN <<>>
    ELSE InsertSorted(SortByTimestamp(SubSeq(segs, 1, Len(segs) - 1)), segs[Len(segs)])

\* handleUpdateSegmentTimestamp without the re-sort
UpdateTimestampUnsorted(segs, id, newTimestamp) ==
    [i \in DOMAIN segs |->
        IF segs[i].id = id THEN [segs[i] EXCEPT !.timestamp = newTimestamp] ELSE segs[i]]

\* App.handleUpdateSegmentTimestamp: the updater passed to setAnalysis
UpdateTimestamp(segs, id, newTimestamp) ==
    SortByTimestamp([i \in DOMAIN segs |->
        IF segs[i].id = id THEN [segs[i] EXCEPT !.timestamp = newTimestamp] ELSE segs[i]])

\* UpdateDuration, except that every segment takes the new duration
UpdateDurationAll(segs, id, newDuration) ==
    [i \in DOMAIN segs |-> [segs[i] EXCEPT !.duration = newDuration]]

\* App.handleUpdateSegmentDuration: the updater passed to setAnalysis
UpdateDuration(segs, id, newDuration) ==
    [i \in DOMAIN segs |->
        IF segs[i].id = id THEN [segs[i] EXCEPT !.duration = newDuration] ELSE segs[i]]

----------------------------------------------------------------------------
(* Drag controller *)

\* move: the clamped timestamp before rounding
MoveTimestamp(total, seg, drag, deltaTime) ==
    Max(0, Min(total - SegDuration(seg), drag.initialTimestamp + deltaTime))

\* resize-start with the upper limit one second too far
ResizeStartDeltaNoMin(drag, deltaTime) ==
    Max(0 - drag.initialTimestamp, Min(drag.initialDuration, deltaTime))

\* resize-start: clampedDelta
ResizeStartDelta(drag, deltaTime) ==
    Max(0 - drag.initialTimestamp, Min(drag.initialDuration - S(MinDuration), deltaTime))

\* resize-end that always extends to the end of the video
ResizeEndToVideoEnd(total, drag, deltaTime) ==
    Max(S(MinDuration), total - drag.initialTimestamp)

\* resize-end: the clamped duration before rounding
ResizeEndDuration(total, drag, deltaTime) ==
    Max(S(MinDuration), Min(total - drag.initialTimestamp, drag.initialDuration + deltaTime))

\* findActiveSegment: first match in collection order
RECURSIVE FindActiveFrom(_, _, _)
FindActiveFrom(segs, i, time) ==
    IF i > Len(segs) THEN Null
    ELSE IF time >= segs[i].timestamp /\ time < segs[i].timestamp + SegDuration(segs[i])
         THEN segs[i].id
         ELSE FindActiveFrom(segs, i + 1, time)

findActiveSegment(segs, time) == FindActiveFrom(segs, 1, time)

\* useState<Segment | null>(null): the value of App.activeSegment when no
\* segment is shown in the detail view
NoSegment == NewSegment(Null, 0)

----------------------------------------------------------------------------
(* Generation pipeline: updaters of the segment collection *)

\* each updater is prev.segments.map(s => s.id === id ? { ...s, <fields> } : s)

\* { ...s, status: 'generating-image', generationProgress: initialProgress }
ImageStarted(segs, id) ==
    [i \in DOMAIN segs |->
        IF segs[i].id = id
        THEN [segs[i] EXCEPT !.status = "generating-image", !.generationProgress = 1]
        ELSE segs[i]]

\* { ...s, status: 'image-success', imageUrl, chromaKey, generationProgress: step 2 }
ImageSucceeded(segs, id) ==
    [i \in DOMAIN segs |->
        IF segs[i].id = id
        THEN [segs[i] EXCEPT !.status = "image-success", !.imageUrl = "image",
                             !.generationProgress = 2]
        ELSE segs[i]]

\* UpdatePrompts, except that the segment goes back to idle
UpdatePromptsResets(segs, id, prompt, animationPrompt) ==
    [i \in DOMAIN segs |->
        IF segs[i].id = id
        THEN [segs[i] EXCEPT !.prompt = prompt, !.animationPrompt = animationPrompt,
                             !.status = "idle"]
        ELSE segs[i]]

\* handleUpdateSegmentPrompts: { ...s, prompt, animationPrompt }
UpdatePrompts(segs, id, prompt, animationPrompt) ==
    [i \in DOMAIN segs |->
        IF segs[i].id = id
        THEN [segs[i] EXCEPT !.prompt = prompt, !.animationPrompt = animationPrompt]
        ELSE segs[i]]

\* RegenerateImageReset, except that the video is kept
RegenerateImageResetKeepsVideo(segs, id) ==
    [i \in DOMAIN segs |->
        IF segs[i].id = id
        THEN [segs[i] EXCEPT !.imageUrl = Null, !.status = "idle"]
        ELSE segs[i]]

\* handleRegenerateImage: { ...s, imageUrl: undefined, videoUrl: undefined, status: 'idle' }
RegenerateImageReset(segs, id) ==
    [i \in DOMAIN segs |->
        IF segs[i].id = id
        THEN [segs[i] EXCEPT !.imageUrl = Null, !.videoUrl = Null, !.status = "idle"]
        ELSE segs[i]]

\* handleRegenerateVideo: { ...s, videoUrl: undefined, status: 'image-success' }
RegenerateVideoReset(segs, id) ==
    [i \in DOMAIN segs |->
        IF segs[i].id = id
        THEN [segs[i] EXCEPT !.videoUrl = Null, !.status = "image-success"]
        ELSE segs[i]]

\* onProgress: { ...s, generationProgress: progress }
ImageProgress(segs, id, step) ==
    [i \in DOMAIN segs |->
        IF segs[i].id = id THEN [segs[i] EXCEPT !.generationProgress = step] ELSE segs[i]]

\* ImageFailed, except that the failure is written to every segment
ImageFailedAll(segs, id) ==
    [i \in DOMAIN segs |->
        [segs[i] EXCEPT !.status = "error", !.error = "failed", !.generationProgress = 0]]

\* { ...s, status: 'error', error: err.message, generationProgress: undefined }
ImageFailed(segs, id) ==
    [i \in DOMAIN segs |->
        IF segs[i].id = id
        THEN [segs[i] EXCEPT !.status = "error", !.error = "failed", !.generationProgress = 0]
        ELSE segs[i]]

\* { ...s, status: 'generating-video' }
VideoStarted(segs, id) ==
    [i \in DOMAIN segs |->
        IF segs[i].id = id THEN [segs[i] EXCEPT !.status = "generating-video"] ELSE segs[i]]

\* VideoSucceeded, except that the result is written to every segment with an image
VideoSucceededAll(segs, id) ==
    [i \in DOMAIN segs |->
        IF segs[i].imageUrl # Null
        THEN [segs[i] EXCEPT !.status = "video-success", !.videoUrl = "video"]
        ELSE segs[i]]

\* { ...s, status: 'video-success', videoUrl: videoUri }
VideoSucceeded(segs, id) ==
    [i \in DOMAIN segs |->
        IF segs[i].id = id
        THEN [segs[i] EXCEPT !.status = "video-success", !.videoUrl = "video"]
        ELSE segs[i]]

\* { ...s, status: 'error', error: err.message }
VideoFailed(segs, id) ==
    [i \in DOMAIN segs |->
        IF segs[i].id = id THEN [segs[i] EXCEPT !.status = "error", !.error = "failed"]
        ELSE segs[i]]

----------------------------------------------------------------------------
(* Generation pipeline: runAutomaticPipeline *)

\* useState<GenerationPipelineState>: the initial value
IdlePipeline ==
    [isRunning |-> FALSE, isPaused |-> FALSE, currentPhase |-> "idle",
     imagesGenerated |-> 0, videosGenerated |-> 0, totalSegments |-> 0]

\* the fields of the collection a run reads from its copy
Snapshot(segs) ==
    [i \in DOMAIN segs |->
        [id |-> segs[i].id, status |-> segs[i].status, imageUrl |-> segs[i].imageUrl]]

\* an invocation that has returned (stopped is history: Stop was pressed while
\* the invocation was running)
DoneRun == [pc |-> "done", i |-> 0, snapshot |-> <<>>, stopped |-> FALSE, polls |-> 0]

\* the least index j >= i of the snapshot that the image loop does not skip, 0 if none
NextIdle(snapshot, i) ==
    IF \E j \in i..Len(snapshot) : snapshot[j].status = "idle"
    THEN CHOOSE j \in i..Len(snapshot) :
            /\ snapshot[j].status = "idle"
            /\ \A k \in i..(j - 1) : snapshot[k].status # "idle"
    ELSE 0

\* the least index j >= i of the snapshot that the video loop does not skip, 0 if none
NextAnimatable(snapshot, i) ==
    IF \E j \in i..Len(snapshot) :
          snapshot[j].status = "image-success" /\ snapshot[j].imageUrl # Null
    THEN CHOOSE j \in i..Len(snapshot) :
            /\ snapshot[j].status = "image-success" /\ snapshot[j].imageUrl # Null
            /\ \A k \in i..(j - 1) :
                  ~(snapshot[k].status = "image-success" /\ snapshot[k].imageUrl # Null)
    ELSE 0

\* ImageLoop, except that a stop marks the segments not yet started as failed
ImageLoopStopErrors(run, i, segs, ps, stop) ==
    IF stop
    THEN [run |-> DoneRun,
          segments |-> [j \in DOMAIN segs |->
                           IF segs[j].status = "idle"
                           THEN [segs[j] EXCEPT !.status = "error", !.error = "stopped"]
                           ELSE segs[j]],
          pipelineState |-> [ps EXCEPT !.isRunning = FALSE]]
    ELSE IF NextIdle(run.snapshot, i) # 0
         THEN [run |-> [run EXCEPT !.pc = "image-await", !.i = NextIdle(run.snapshot, i)],
               segments |-> ImageStarted(segs, run.snapshot[NextIdle(run.snapshot, i)].id),
               pipelineState |-> ps]
         ELSE [run |-> [run EXCEPT !.pc = "video-snapshot", !.i = 0],
               segments |-> segs,
               pipelineState |-> [ps EXCEPT !.currentPhase = "videos"]]

\* the image loop from index i up to its next await, or to the await that opens
\* phase 2, or to the return after a stop: the run, the collection and the
\* pipeline state it leaves
ImageLoop(run, i, segs, ps, stop) ==
    IF stop
    THEN [run |-> DoneRun, segments |-> segs, pipelineState |-> [ps EXCEPT !.isRunning = FALSE]]
    ELSE IF NextIdle(run.snapshot, i) # 0
         THEN [run |-> [run EXCEPT !.pc = "image-await", !.i = NextIdle(run.snapshot, i)],
               segments |-> ImageStarted(segs, run.snapshot[NextIdle(run.snapshot, i)].id),
               pipelineState |-> ps]
         ELSE [run |-> [run EXCEPT !.pc = "video-snapshot", !.i = 0],
               segments |-> segs,
               pipelineState |-> [ps EXCEPT !.currentPhase = "videos"]]

\* VideoLoop, except that the completion leaves isRunning as it is
VideoLoopKeepsRunning(run, i, segs, ps, stop) ==
    IF ~stop /\ NextAnimatable(run.snapshot, i) # 0
    THEN [run |-> [run EXCEPT !.pc = "video-await", !.i = NextAnimatable(run.snapshot, i),
                              !.polls = 0],
          segments |-> VideoStarted(segs, run.snapshot[NextAnimatable(run.snapshot, i)].id),
          pipelineState |-> ps]
    ELSE [run |-> DoneRun, segments |-> segs,
          pipelineState |-> [ps EXCEPT !.currentPhase = "complete"]]

\* the video loop from index i up to its next await or to the completion
VideoLoop(run, i, segs, ps, stop) ==
    IF ~stop /\ NextAnimatable(run.snapshot, i) # 0
    THEN [run |-> [run EXCEPT !.pc = "video-await", !.i = NextAnimatable(run.snapshot, i),
                              !.polls = 0],
          segments |-> VideoStarted(segs, run.snapshot[NextAnimatable(run.snapshot, i)].id),
          pipelineState |-> ps]
    ELSE [run |-> DoneRun, segments |-> segs,
          pipelineState |-> [ps EXCEPT !.isRunning = FALSE, !.currentPhase = "complete"]]

\* runAutomaticPipeline(analysisResult, ...) from its call up to its first await
StartRun(snapshot, segs, ps, stop) ==
    ImageLoop([pc |-> "start", i |-> 0, snapshot |-> snapshot, stopped |-> FALSE,
               polls |-> 0], 1, segs,
              [ps EXCEPT !.currentPhase = "images"], stop)

\* the id of the segment a run is generating for
RunSegment(run) == run.snapshot[run.i].id

\* the number of requests in flight for a segment
InFlight(id) ==
    Cardinality({r \in DOMAIN runs :
                    runs[r].pc \in {"image-await", "video-await"} /\ RunSegment(runs[r]) = id})
    + requests[<<"image", id>>] + requests[<<"video", id>>] + requests[<<"auto", id>>]
    + requests[<<"detail-image", id>>] + requests[<<"detail-video", id>>]

\* the positions of an invocation of a generation handler: "image-key" and
\* "video-key" at the awaited checkApiKey of handleGenerateSegmentImage / Video,
\* "image" and "video" at their awaited generation call; "auto-key" and "auto"
\* are the same positions of handleGenerateSegmentImage when handleFullAutoGenerate
\* awaits it to go on with the video;
\* "regen-key" is the checkApiKey of the handleGenerateSegmentImage that
\* handleRegenerateImage calls; "detail-image" and "detail-video" are the awaited
\* generation calls of the handlers when the detail view called them: the
\* activeSegment of their closure is the segment they were given
RequestKinds ==
    {"image-key", "image", "video-key", "video", "auto-key", "auto", "regen-key",
     "detail-image", "detail-video"}

RequestKeys == RequestKinds \X {SegmentIds[i] : i \in DOMAIN SegmentIds}

ManualInFlight(reqs) ==
    LET RECURSIVE Sum(_)
        Sum(keys) == IF keys = {} THEN 0
                     ELSE LET k == CHOOSE k \in keys : TRUE IN reqs[k] + Sum(keys \ {k})
    IN  Sum(RequestKeys)

----------------------------------------------------------------------------
(* Colors: a string is the sequence of its characters *)

\* the digits of Number.prototype.toString(16)
HexDigits == <<"0", "1", "2", "3", "4", "5", "6", "7", "8", "9",
               "a", "b", "c", "d", "e", "f">>

\* the upper-case letters the i flag of the pattern of hexToRgb accepts as well
UpperHexDigits == <<"0", "1", "2", "3", "4", "5", "6", "7", "8", "9",
                    "A", "B", "C", "D", "E", "F">>

\* [a-f\d] under the i flag
IsHexDigit(ch) == \E i \in 1..16 : HexDigits[i] = ch \/ UpperHexDigits[i] = ch

\* the value parseInt(.., 16) gives one digit
HexValue(ch) == (CHOOSE i \in 1..16 : HexDigits[i] = ch \/ UpperHexDigits[i] = ch) - 1

\* parseInt(s, 16) of a string of hex digits
RECURSIVE parseInt16(_)
parseInt16(s) ==
    IF s = <<>> THEN 0
    ELSE 16 * parseInt16(SubSeq(s, 1, Len(s) - 1)) + HexValue(s[Len(s)])

\* x.toString(16) of an integer x >= 0
RECURSIVE toString16(_)
toString16(x) ==
    IF x < 16 THEN <<HexDigits[x + 1]>>
    ELSE toString16(x \div 16) \o <<HexDigits[(x % 16) + 1]>>

\* s.padStart(n, ch)
padStart(s, n, ch) ==
    IF Len(s) >= n THEN s ELSE [i \in 1..(n - Len(s)) |-> ch] \o s

\* rgbToHex, except that the digits of a channel are not padded
rgbToHexUnpadded(r, g, b) ==
    <<"#">> \o toString16(r) \o toString16(g) \o toString16(b)

\* '#' + [r, g, b].map(x => x.toString(16).padStart(2, '0')).join('')
rgbToHex(r, g, b) ==
    <<"#">> \o padStart(toString16(r), 2, "0") \o padStart(toString16(g), 2, "0")
            \o padStart(toString16(b), 2, "0")

\* hexToRgb, except that the pattern is taken to have matched whatever the input
hexToRgbNoFallback(hex) ==
    LET body == IF hex # <<>> /\ hex[1] = "#" THEN Tail(hex) ELSE hex
        digits == SelectSeq(body, IsHexDigit)
        pair(k) == IF Len(digits) >= 2 * k THEN parseInt16(SubSeq(digits, 2 * k - 1, 2 * k))
                   ELSE -1
    IN  [r |-> pair(1), g |-> pair(2), b |-> pair(3)]

\* /^#?([a-f\d]{2})([a-f\d]{2})([a-f\d]{2})$/i.exec(hex): the three channels
\* of a match, and { r: 0, g: 255, b: 0 } when there is none
hexToRgb(hex) ==
    LET body == IF hex # <<>> /\ hex[1] = "#" THEN Tail(hex) ELSE hex
        result == Len(body) = 6 /\ \A i \in 1..6 : IsHexDigit(body[i])
    IN  IF result
        THEN [r |-> parseInt16(SubSeq(body, 1, 2)),
              g |-> parseInt16(SubSeq(body, 3, 4)),
              b |-> parseInt16(SubSeq(body, 5, 6))]
        ELSE [r |-> 0, g |-> 255, b |-> 0]

\* types.ts: DEFAULT_CHROMA_KEY_SETTINGS
DEFAULT_CHROMA_KEY_SETTINGS ==
    [enabled |-> TRUE, keyColor |-> <<"#", "0", "0", "F", "F", "0", "0">>,
     tolerance |-> 40, spillSuppression |-> 50, edgeSoftness |-> 10]

----------------------------------------------------------------------------
(* The overlay video of the preview *)

\* overlayVideoRef.current is null: no overlay video element is rendered
NoOverlay == [src |-> Null, currentTime |-> 0]

\* the drift above which handleTimeUpdate repositions the overlay: 0.3 s
DriftThreshold == 3 * Tenth

\* the render after a handler: the overlay video element exists while the active
\* segment has a video; an element that is new, or whose src is the video of
\* another segment, starts at 0
Rendered(ov, segs, active) ==
    LET want == IF active # Null /\ IndexOf(segs, active) # 0
                   /\ Find(segs, active).videoUrl # Null
                THEN active ELSE Null
    IN  IF want = ov.src THEN ov ELSE [src |-> want, currentTime |-> 0]

\* handleTimeUpdate, "Sync overlay video if present": the overlay element after
\* the handler found the segment segId at the playback position time
SyncOverlay(ov, segs, segId, time) ==
    IF ov.src # Null /\ segId # Null /\ Find(segs, segId).videoUrl # Null
    THEN LET segmentTime == time - Find(segs, segId).timestamp
             drift == IF ov.currentTime >= segmentTime THEN ov.currentTime - segmentTime
                      ELSE segmentTime - ov.currentTime
         IN  IF drift > DriftThreshold THEN [ov EXCEPT !.currentTime = segmentTime] ELSE ov
    ELSE ov

----------------------------------------------------------------------------
(* Initial state: App and TimelineEditor just constructed, no video *)

Init ==
    /\ segments = <<>>
    /\ duration = 0
    /\ segmentDrag = NoDrag
    /\ currentTime = 0
    /\ activeSegment = Null
    /\ edits = 0
    /\ tsUpdated = FALSE
    /\ lastEvent = NoEvent
    /\ pipelineState = IdlePipeline
    /\ stopGenerationRef = FALSE
    /\ runs = <<>>
    /\ requests = [k \in RequestKeys |-> 0]
    /\ isBatchProcessing = FALSE
    /\ chromaSettings = DEFAULT_CHROMA_KEY_SETTINGS
    /\ imageData = <<>>
    /\ applications = 0
    /\ overlayVideo = NoOverlay
    /\ assetCalls = <<>>
    /\ discarded = {}
    /\ appActiveSegment = NoSegment

----------------------------------------------------------------------------
(* Actions *)

\* handleFileSelect from setAnalysis(result) on: the analysis result arrives (the
\* editor's video element has reported its metadata), the pipeline state is
\* initialised and runAutomaticPipeline runs up to its first await
AnalysisComplete ==
    /\ segments = <<>>
    /\ \E total \in VideoDurations :
         \E ts \in [DOMAIN SegmentIds -> TimestampChoices(total)] :
            LET result == [i \in DOMAIN SegmentIds |-> NewSegment(SegmentIds[i], ts[i])]
                started == StartRun(Snapshot(result), result,
                               [isRunning |-> TRUE, isPaused |-> FALSE, currentPhase |-> "prompts",
                                imagesGenerated |-> 0, videosGenerated |-> 0,
                                totalSegments |-> Len(result)],
                               FALSE)
            IN  /\ duration' = total
                /\ segments' = started.segments
                /\ pipelineState' = started.pipelineState
                /\ runs' = Append(runs, started.run)
    /\ stopGenerationRef' = FALSE
    /\ lastEvent' = Event("analysis", Null, 0)
    /\ UNCHANGED <<segmentDrag, currentTime, activeSegment, edits, tsUpdated, requests,
                   isBatchProcessing, chromaVars, serviceVars, sessionVars>>
    /\ overlayVideo' = Rendered(overlayVideo, segments', activeSegment')

\* onMouseDown on a segment block or on one of its two edges
handleSegmentDragStart(id, mode) ==
    /\ IndexOf(segments, id) # 0
    /\ segmentDrag' = [segmentId |-> id, mode |-> mode,
                       initialTimestamp |-> Find(segments, id).timestamp,
                       initialDuration |-> SegDuration(Find(segments, id))]
    /\ lastEvent' = Event("dragStart", id, 0)
    /\ UNCHANGED <<segments, duration, currentTime, activeSegment, edits, tsUpdated>>
    /\ UNCHANGED <<generationVars, isBatchProcessing, chromaVars, serviceVars, sessionVars>>
    /\ overlayVideo' = Rendered(overlayVideo, segments', activeSegment')

\* window mousemove while a drag is active
handleSegmentDragMove(deltaTime) ==
    /\ segmentDrag # NoDrag
    /\ IndexOf(segments, segmentDrag.segmentId) # 0
    /\ LET id == segmentDrag.segmentId
           seg == Find(segments, id)
       IN  CASE segmentDrag.mode = "move" ->
                  segments' = UpdateTimestamp(segments, id,
                                  Round1(MoveTimestamp(duration, seg, segmentDrag, deltaTime)))
             [] segmentDrag.mode = "resize-start" ->
                  LET clampedDelta == ResizeStartDelta(segmentDrag, deltaTime)
                      newTimestamp == segmentDrag.initialTimestamp + clampedDelta
                      newDuration == segmentDrag.initialDuration - clampedDelta
                  IN  segments' = UpdateDuration(
                                      UpdateTimestamp(segments, id, Round1(newTimestamp)),
                                      id, Round1(newDuration))
             [] segmentDrag.mode = "resize-end" ->
                  segments' = UpdateDuration(segments, id,
                                  Round1(ResizeEndDuration(duration, segmentDrag, deltaTime)))
    /\ edits' = edits + 1
    /\ tsUpdated' = (tsUpdated \/ segmentDrag.mode \in {"move", "resize-start"})
    /\ lastEvent' = Event(segmentDrag.mode, segmentDrag.segmentId, deltaTime)
    /\ UNCHANGED <<duration, segmentDrag, currentTime, activeSegment>>
    /\ UNCHANGED <<generationVars, isBatchProcessing, chromaVars, serviceVars, sessionVars>>
    /\ overlayVideo' = Rendered(overlayVideo, segments', activeSegment')

\* the early return of handleSegmentDragMove: no drag is active, or the dragged
\* segment is not in the collection
handleSegmentDragMoveIgnored(deltaTime) ==
    /\ segments # <<>>
    /\ segmentDrag = NoDrag \/ IndexOf(segments, segmentDrag.segmentId) = 0
    /\ lastEvent' = Event("moveIgnored", Null, deltaTime)
    /\ UNCHANGED <<segments, editorVars, generationVars, isBatchProcessing, chromaVars, serviceVars, sessionVars,
                   overlayVideo>>

\* handleSegmentDragEnd, except that the dragged segment is put back to the
\* timestamp it had when the drag began
handleSegmentDragEndReverts ==
    /\ segmentDrag # NoDrag
    /\ segmentDrag' = NoDrag
    /\ segments' = UpdateTimestamp(segments, segmentDrag.segmentId,
                                   segmentDrag.initialTimestamp)
    /\ lastEvent' = Event("dragEnd", segmentDrag.segmentId, 0)
    /\ UNCHANGED <<duration, currentTime, activeSegment, edits, tsUpdated>>
    /\ UNCHANGED <<generationVars, isBatchProcessing, chromaVars, serviceVars, sessionVars>>
    /\ overlayVideo' = Rendered(overlayVideo, segments', activeSegment')

\* window mouseup
handleSegmentDragEnd ==
    /\ segmentDrag # NoDrag
    /\ segmentDrag' = NoDrag
    /\ lastEvent' = Event("dragEnd", segmentDrag.segmentId, 0)
    /\ UNCHANGED <<segments, duration, currentTime, activeSegment, edits, tsUpdated>>
    /\ UNCHANGED <<generationVars, isBatchProcessing, chromaVars, serviceVars, sessionVars>>
    /\ overlayVideo' = Rendered(overlayVideo, segments', activeSegment')

\* sidebar "Decrease duration" button
DecreaseDuration(id) ==
    /\ IndexOf(segments, id) # 0
    /\ segments' = UpdateDuration(segments, id,
                       Max(S(MinDuration), SegDuration(Find(segments, id)) - S(1)))
    /\ edits' = edits + 1
    /\ lastEvent' = Event("decrease", id, 0)
    /\ UNCHANGED <<duration, segmentDrag, currentTime, activeSegment, tsUpdated>>
    /\ UNCHANGED <<generationVars, isBatchProcessing, chromaVars, serviceVars, sessionVars>>
    /\ overlayVideo' = Rendered(overlayVideo, segments', activeSegment')

\* sidebar "Increase duration" button
IncreaseDuration(id) ==
    /\ IndexOf(segments, id) # 0
    /\ segments' = UpdateDuration(segments, id,
                       Min(S(MaxDuration), SegDuration(Find(segments, id)) + S(1)))
    /\ edits' = edits + 1
    /\ lastEvent' = Event("increase", id, 0)
    /\ UNCHANGED <<duration, segmentDrag, currentTime, activeSegment, tsUpdated>>
    /\ UNCHANGED <<generationVars, isBatchProcessing, chromaVars, serviceVars, sessionVars>>
    /\ overlayVideo' = Rendered(overlayVideo, segments', activeSegment')

\* timeupdate of the base video: setCurrentTime, setActiveSegment, the sync of
\* the overlay video, and the render that follows
handleTimeUpdate(time) ==
    /\ segments # <<>>
    /\ currentTime' = time
    /\ activeSegment' = findActiveSegment(segments, time)
    /\ overlayVideo' = Rendered(SyncOverlay(overlayVideo, segments,
                                            findActiveSegment(segments, time), time),
                                segments, findActiveSegment(segments, time))
    /\ lastEvent' = Event("timeUpdate", Null, 0)
    /\ UNCHANGED <<segments, duration, segmentDrag, edits, tsUpdated>>
    /\ UNCHANGED <<generationVars, isBatchProcessing, chromaVars, serviceVars, sessionVars>>

----------------------------------------------------------------------------
(* Timeline editing: analysis, drags and the duration buttons *)

DragStartStep ==
    \E i \in DOMAIN SegmentIds : \E mode \in {"move", "resize-start", "resize-end"} :
        handleSegmentDragStart(SegmentIds[i], mode)

DragMoveStep == edits < MaxEdits /\ \E d \in DeltaChoices : handleSegmentDragMove(d)

DecreaseStep == edits < MaxEdits /\ \E i \in DOMAIN SegmentIds : DecreaseDuration(SegmentIds[i])

IncreaseStep == edits < MaxEdits /\ \E i \in DOMAIN SegmentIds : IncreaseDuration(SegmentIds[i])

Next ==
    \/ AnalysisComplete
    \/ DragStartStep
    \/ DragMoveStep
    \/ handleSegmentDragEnd
    \/ DecreaseStep
    \/ IncreaseStep

Spec == Init /\ [][Next]_vars

----------------------------------------------------------------------------
(* Drag protocol: drag starts, pointer moves with and without a drag, pointer up *)

\* number of committed pointer moves while the drag protocol is explored
MaxDragEdits == 2

ProtocolDragMoveStep ==
    edits < MaxDragEdits /\ \E d \in DeltaChoices : handleSegmentDragMove(d)

DragMoveIgnoredStep == \E d \in DeltaChoices : handleSegmentDragMoveIgnored(d)

NextDrag ==
    \/ AnalysisComplete
    \/ DragStartStep
    \/ ProtocolDragMoveStep
    \/ DragMoveIgnoredStep
    \/ handleSegmentDragEnd

SpecDrag == Init /\ [][NextDrag]_vars

\* pointer displacements that are no multiple of a tenth of a second
\* (-1.05 s, 0.25 s, 1.05 s), and two that are past the limits of a resize
FineDeltaChoices == {0 - (S(1) + 1), TicksPerSecond \div 4, S(1) + 1, 0 - S(70), S(20)}

FineDragMoveStep ==
    edits < MaxDragEdits /\ \E d \in FineDeltaChoices : handleSegmentDragMove(d)

NextFineDrag ==
    \/ AnalysisComplete
    \/ DragStartStep
    \/ FineDragMoveStep
    \/ handleSegmentDragEnd

SpecFineDrag == Init /\ [][NextFineDrag]_vars

----------------------------------------------------------------------------
(* Playback: analysis, drags and the time updates of the base video *)

PlaybackDragMoveStep ==
    edits < MaxPlaybackEdits /\ \E d \in DeltaChoices : handleSegmentDragMove(d)

TimeUpdateStep == \E t \in TimeChoices(duration) : handleTimeUpdate(t)

NextPlayback ==
    \/ AnalysisComplete
    \/ DragStartStep
    \/ PlaybackDragMoveStep
    \/ handleSegmentDragEnd
    \/ TimeUpdateStep

SpecPlayback == Init /\ [][NextPlayback]_vars

----------------------------------------------------------------------------
(* Generation: the automatic pipeline, Stop / Resume and the sidebar buttons *)

\* runAutomaticPipeline, image phase: the awaited frame extraction and image
\* generation of one run return (ok) or throw, and the loop goes on to its next await
PipelineImageDone(r, ok) ==
    /\ r \in DOMAIN runs
    /\ runs[r].pc = "image-await"
    /\ LET id == RunSegment(runs[r])
           segs1 == IF ok THEN ImageSucceeded(segments, id)
                          ELSE ImageFailed(segments, id)
           ps1 == IF ok THEN [pipelineState EXCEPT !.imagesGenerated = @ + 1]
                        ELSE pipelineState
           next == ImageLoop(runs[r], runs[r].i + 1, segs1, ps1, stopGenerationRef)
       IN  /\ segments' = next.segments
           /\ pipelineState' = next.pipelineState
           /\ runs' = [runs EXCEPT ![r] = next.run]
           /\ lastEvent' = Event(IF ok THEN "imageSuccess" ELSE "imageError", id, 0)
    /\ UNCHANGED <<editorVars, isBatchProcessing, chromaVars, serviceVars, sessionVars>>
    /\ overlayVideo' = Rendered(overlayVideo, segments', activeSegment')
    /\ UNCHANGED <<stopGenerationRef, requests>>

\* runAutomaticPipeline, phase 2: the promise that reads the current analysis
\* resolves and the video loop runs up to its first await
PipelineVideoSnapshot(r) ==
    /\ r \in DOMAIN runs
    /\ runs[r].pc = "video-snapshot"
    /\ LET next == IF segments = <<>>
                   THEN [run |-> DoneRun, segments |-> segments, pipelineState |-> pipelineState]
                   ELSE VideoLoop([runs[r] EXCEPT !.snapshot = Snapshot(segments)], 1,
                                  segments, pipelineState, stopGenerationRef)
       IN  /\ segments' = next.segments
           /\ pipelineState' = next.pipelineState
           /\ runs' = [runs EXCEPT ![r] = next.run]
    /\ lastEvent' = Event("videoPhase", Null, 0)
    /\ UNCHANGED <<editorVars, isBatchProcessing, chromaVars, serviceVars, sessionVars>>
    /\ overlayVideo' = Rendered(overlayVideo, segments', activeSegment')
    /\ UNCHANGED <<stopGenerationRef, requests>>

\* runAutomaticPipeline, video phase: the awaited generateVeoAnimation of one run
\* returns (ok) or throws, and the loop goes on to its next await
PipelineVideoDone(r, ok) ==
    /\ r \in DOMAIN runs
    /\ runs[r].pc = "video-await"
    /\ LET id == RunSegment(runs[r])
           segs1 == IF ok THEN VideoSucceeded(segments, id)
                          ELSE VideoFailed(segments, id)
           ps1 == IF ok THEN [pipelineState EXCEPT !.videosGenerated = @ + 1]
                        ELSE pipelineState
           next == VideoLoop(runs[r], runs[r].i + 1, segs1, ps1, stopGenerationRef)
       IN  /\ segments' = next.segments
           /\ pipelineState' = next.pipelineState
           /\ runs' = [runs EXCEPT ![r] = next.run]
           /\ lastEvent' = Event(IF ok THEN "videoSuccess" ELSE "videoError", id, 0)
    /\ UNCHANGED <<editorVars, isBatchProcessing, chromaVars, serviceVars, sessionVars>>
    /\ overlayVideo' = Rendered(overlayVideo, segments', activeSegment')
    /\ UNCHANGED <<stopGenerationRef, requests>>

\* the Stop button of the header, rendered while pipelineState.isRunning
handleStopGeneration ==
    /\ pipelineState.isRunning
    /\ stopGenerationRef' = TRUE
    /\ pipelineState' = [pipelineState EXCEPT !.isRunning = FALSE, !.isPaused = TRUE]
    /\ runs' = [r \in DOMAIN runs |->
                    IF runs[r].pc = "done" THEN runs[r] ELSE [runs[r] EXCEPT !.stopped = TRUE]]
    /\ lastEvent' = Event("stop", Null, 0)
    /\ UNCHANGED <<editorVars, isBatchProcessing, chromaVars, serviceVars, sessionVars>>
    /\ overlayVideo' = Rendered(overlayVideo, segments', activeSegment')
    /\ UNCHANGED <<segments, requests>>

\* the Resume button of the header, rendered while paused, not running and not
\* complete: a new invocation of runAutomaticPipeline on the current analysis
handleResumeGeneration ==
    /\ pipelineState.isPaused
    /\ ~pipelineState.isRunning
    /\ pipelineState.currentPhase # "complete"
    /\ segments # <<>>
    /\ Len(runs) < MaxRuns
    /\ LET started == StartRun(Snapshot(segments), segments,
                               [pipelineState EXCEPT !.isRunning = TRUE, !.isPaused = FALSE],
                               FALSE)
       IN  /\ segments' = started.segments
           /\ pipelineState' = started.pipelineState
           /\ runs' = Append(runs, started.run)
    /\ stopGenerationRef' = FALSE
    /\ lastEvent' = Event("resume", Null, 0)
    /\ UNCHANGED <<editorVars, isBatchProcessing, chromaVars, serviceVars, sessionVars>>
    /\ overlayVideo' = Rendered(overlayVideo, segments', activeSegment')
    /\ UNCHANGED requests

\* App.handleGenerateSegmentImage up to its first awaited generation call
\* (an API key is selected: handleFileSelect has required it)
handleGenerateSegmentImage(id) ==
    /\ segments # <<>>
    /\ ManualInFlight(requests) < MaxManualInFlight
    /\ segments' = ImageStarted(segments, id)
    /\ requests' = [requests EXCEPT ![<<"image", id>>] = @ + 1]
    /\ UNCHANGED <<editorVars, isBatchProcessing, chromaVars, serviceVars, sessionVars>>
    /\ overlayVideo' = Rendered(overlayVideo, segments', activeSegment')
    /\ UNCHANGED <<pipelineState, stopGenerationRef, runs>>

\* App.handleGenerateSegmentVideo up to its awaited generation call; it returns
\* at once when the segment it was given has no image
handleGenerateSegmentVideo(id) ==
    /\ ManualInFlight(requests) < MaxManualInFlight
    /\ IF Find(segments, id).imageUrl = Null
       THEN UNCHANGED <<segments, requests>>
       ELSE /\ segments' = VideoStarted(segments, id)
            /\ requests' = [requests EXCEPT ![<<"video", id>>] = @ + 1]
    /\ UNCHANGED <<editorVars, isBatchProcessing, chromaVars, serviceVars, sessionVars>>
    /\ overlayVideo' = Rendered(overlayVideo, segments', activeSegment')
    /\ UNCHANGED <<pipelineState, stopGenerationRef, runs>>

\* sidebar button "Generate Image": rendered for a segment without image that is
\* not generating, disabled while the pipeline is running
GenerateImageClick(id) ==
    /\ IndexOf(segments, id) # 0
    /\ Find(segments, id).imageUrl = Null
    /\ Find(segments, id).status \notin {"generating-image", "generating-video"}
    /\ ~pipelineState.isRunning
    /\ handleGenerateSegmentImage(id)
    /\ lastEvent' = Event("generateImage", id, 0)

\* sidebar button "Animate": rendered for a segment with an image and no video
\* that is not generating a video, disabled while the pipeline is running
AnimateClick(id) ==
    /\ IndexOf(segments, id) # 0
    /\ Find(segments, id).imageUrl # Null
    /\ Find(segments, id).videoUrl = Null
    /\ Find(segments, id).status # "generating-video"
    /\ ~pipelineState.isRunning
    /\ handleGenerateSegmentVideo(id)
    /\ lastEvent' = Event("animate", id, 0)

\* sidebar button "Regen Video": rendered for a segment with a video that is not
\* generating a video, disabled while the pipeline is running
RegenVideoClick(id) ==
    /\ IndexOf(segments, id) # 0
    /\ Find(segments, id).videoUrl # Null
    /\ Find(segments, id).status # "generating-video"
    /\ ~pipelineState.isRunning
    /\ handleGenerateSegmentVideo(id)
    /\ lastEvent' = Event("regenVideo", id, 0)

\* App.handleGenerateSegmentImage: the awaited calls return (ok) or throw
ImageRequestDone(id, ok) ==
    /\ requests[<<"image", id>>] > 0
    /\ segments' = IF ok THEN ImageSucceeded(segments, id)
                         ELSE ImageFailed(segments, id)
    /\ requests' = [requests EXCEPT ![<<"image", id>>] = @ - 1]
    /\ lastEvent' = Event(IF ok THEN "imageSuccess" ELSE "imageError", id, 0)
    /\ UNCHANGED <<editorVars, isBatchProcessing, chromaVars, serviceVars, sessionVars>>
    /\ overlayVideo' = Rendered(overlayVideo, segments', activeSegment')
    /\ UNCHANGED <<pipelineState, stopGenerationRef, runs>>

\* App.handleGenerateSegmentVideo: generateVeoAnimation returns (ok) or throws
VideoRequestDone(id, ok) ==
    /\ requests[<<"video", id>>] > 0
    /\ segments' = IF ok THEN VideoSucceeded(segments, id)
                         ELSE VideoFailed(segments, id)
    /\ requests' = [requests EXCEPT ![<<"video", id>>] = @ - 1]
    /\ lastEvent' = Event(IF ok THEN "videoSuccess" ELSE "videoError", id, 0)
    /\ UNCHANGED <<editorVars, isBatchProcessing, chromaVars, serviceVars, sessionVars>>
    /\ overlayVideo' = Rendered(overlayVideo, segments', activeSegment')
    /\ UNCHANGED <<pipelineState, stopGenerationRef, runs>>

\* the analysis of a 60 s video whose segments all start at 0 s
GenerationAnalysisStep ==
    /\ AnalysisComplete
    /\ duration' = S(60)
    /\ \A i \in DOMAIN segments' : segments'[i].timestamp = S(0)

PipelineImageDoneStep == \E r \in 1..MaxRuns : \E ok \in BOOLEAN : PipelineImageDone(r, ok)

PipelineVideoSnapshotStep == \E r \in 1..MaxRuns : PipelineVideoSnapshot(r)

PipelineVideoDoneStep == \E r \in 1..MaxRuns : \E ok \in BOOLEAN : PipelineVideoDone(r, ok)

GenerateImageStep == \E i \in DOMAIN SegmentIds : GenerateImageClick(SegmentIds[i])

AnimateStep == \E i \in DOMAIN SegmentIds : AnimateClick(SegmentIds[i])

RegenVideoStep == \E i \in DOMAIN SegmentIds : RegenVideoClick(SegmentIds[i])

ImageRequestDoneStep ==
    \E i \in DOMAIN SegmentIds : \E ok \in BOOLEAN : ImageRequestDone(SegmentIds[i], ok)

VideoRequestDoneStep ==
    \E i \in DOMAIN SegmentIds : \E ok \in BOOLEAN : VideoRequestDone(SegmentIds[i], ok)

NextGeneration ==
    \/ GenerationAnalysisStep
    \/ PipelineImageDoneStep
    \/ PipelineVideoSnapshotStep
    \/ PipelineVideoDoneStep
    \/ handleStopGeneration
    \/ handleResumeGeneration
    \/ GenerateImageStep
    \/ AnimateStep
    \/ RegenVideoStep
    \/ ImageRequestDoneStep
    \/ VideoRequestDoneStep

SpecGeneration == Init /\ [][NextGeneration]_vars

----------------------------------------------------------------------------
(* Batch generation: the handlers App hands to PromptSelector *)

\* requests with n more invocations at a position for every segment of a set
AddRequests(reqs, kind, ids) ==
    [k \in RequestKeys |-> IF k[1] = kind /\ k[2] \in ids THEN reqs[k] + 1 ELSE reqs[k]]

\* one invocation of a segment moves from one position to the next
MoveRequest(reqs, from, to, id) ==
    [reqs EXCEPT ![<<from, id>>] = @ - 1, ![<<to, id>>] = @ + 1]

\* the start of every batch handler: setIsBatchProcessing(true), the stop flag
\* and isPaused are cleared
BatchBegin ==
    /\ segments # <<>>
    /\ ~isBatchProcessing
    /\ isBatchProcessing' = TRUE
    /\ stopGenerationRef' = FALSE
    /\ pipelineState' = [pipelineState EXCEPT !.isPaused = FALSE]
    /\ UNCHANGED <<segments, runs, editorVars, chromaVars, serviceVars, sessionVars, overlayVideo>>

\* "Images Only": handleGenerateSegmentImage is called for every idle segment
\* and each call runs up to its awaited checkApiKey
handleBatchGenerateImages ==
    LET ids == {segments[i].id : i \in {j \in DOMAIN segments : segments[j].status = "idle"}}
    IN  /\ ids # {}
        /\ ManualInFlight(requests) + Cardinality(ids) <= MaxManualInFlight
        /\ BatchBegin
        /\ requests' = AddRequests(requests, "image-key", ids)
        /\ lastEvent' = Event("batchImages", Null, 0)

\* "Animate Only": handleGenerateSegmentVideo is called for every image-success
\* segment; a call for a segment without image returns at once
handleBatchAnimate ==
    LET ready == {segments[i].id :
                     i \in {j \in DOMAIN segments : segments[j].status = "image-success"}}
        ids == {id \in ready : Find(segments, id).imageUrl # Null}
    IN  /\ ready # {}
        /\ ManualInFlight(requests) + Cardinality(ids) <= MaxManualInFlight
        /\ BatchBegin
        /\ requests' = AddRequests(requests, "video-key", ids)
        /\ lastEvent' = Event("batchAnimate", Null, 0)

\* "Magic Auto-Generate All": every segment without a video and not generating
\* one gets its image generated when it is idle, failed or without image, and
\* is animated at once when it has an image
handleFullAutoGenerate ==
    LET todo == {segments[i].id :
                    i \in {j \in DOMAIN segments :
                              segments[j].status \notin {"video-success", "generating-video"}}}
        images == {id \in todo : \/ Find(segments, id).status \in {"idle", "error"}
                                 \/ Find(segments, id).imageUrl = Null}
    IN  /\ \E i \in DOMAIN segments : segments[i].status # "video-success"
        /\ ManualInFlight(requests) + Cardinality(todo) <= MaxManualInFlight
        /\ BatchBegin
        /\ requests' = AddRequests(AddRequests(requests, "auto-key", images),
                                   "video-key", todo \ images)
        /\ lastEvent' = Event("fullAuto", Null, 0)

\* handleGenerateSegmentImage after its checkApiKey: the status update, up to
\* the awaited generation call
ImageRequestStart(kind, id) ==
    /\ kind \in {"image", "auto"}
    /\ requests[<<kind \o "-key", id>>] > 0
    /\ segments' = ImageStarted(segments, id)
    /\ requests' = MoveRequest(requests, kind \o "-key", kind, id)
    /\ lastEvent' = Event("imageStart", id, 0)
    /\ UNCHANGED <<editorVars, isBatchProcessing, chromaVars, serviceVars, sessionVars>>
    /\ overlayVideo' = Rendered(overlayVideo, segments', activeSegment')
    /\ UNCHANGED <<pipelineState, stopGenerationRef, runs>>

\* handleGenerateSegmentImage: onProgress is called by generateImageAsset
ImageRequestProgress(kind, id, step) ==
    /\ kind \in {"image", "auto"}
    /\ requests[<<kind, id>>] > 0
    /\ segments' = ImageProgress(segments, id, step)
    /\ lastEvent' = Event("imageProgress", id, step)
    /\ UNCHANGED <<editorVars, isBatchProcessing, chromaVars, serviceVars, sessionVars>>
    /\ overlayVideo' = Rendered(overlayVideo, segments', activeSegment')
    /\ UNCHANGED <<pipelineState, stopGenerationRef, runs, requests>>

\* handleFullAutoGenerate: the awaited handleGenerateSegmentImage returns the new
\* image and handleGenerateSegmentVideo is called with it (ok), or returns null
AutoImageDone(id, ok) ==
    /\ requests[<<"auto", id>>] > 0
    /\ segments' = IF ok THEN ImageSucceeded(segments, id) ELSE ImageFailed(segments, id)
    /\ requests' = IF ok THEN MoveRequest(requests, "auto", "video-key", id)
                         ELSE [requests EXCEPT ![<<"auto", id>>] = @ - 1]
    /\ lastEvent' = Event(IF ok THEN "imageSuccess" ELSE "imageError", id, 0)
    /\ UNCHANGED <<editorVars, isBatchProcessing, chromaVars, serviceVars, sessionVars>>
    /\ overlayVideo' = Rendered(overlayVideo, segments', activeSegment')
    /\ UNCHANGED <<pipelineState, stopGenerationRef, runs>>

\* handleGenerateSegmentVideo after its checkApiKey: the status update, up to
\* the awaited generateVeoAnimation
VideoRequestStart(id) ==
    /\ requests[<<"video-key", id>>] > 0
    /\ segments' = VideoStarted(segments, id)
    /\ requests' = MoveRequest(requests, "video-key", "video", id)
    /\ lastEvent' = Event("videoStart", id, 0)
    /\ UNCHANGED <<editorVars, isBatchProcessing, chromaVars, serviceVars, sessionVars>>
    /\ overlayVideo' = Rendered(overlayVideo, segments', activeSegment')
    /\ UNCHANGED <<pipelineState, stopGenerationRef, runs>>

\* the batch handlers after their awaited Promise.all: every invocation the
\* batch made has returned
BatchFinished ==
    /\ isBatchProcessing
    /\ ManualInFlight(requests) = 0
    /\ isBatchProcessing' = FALSE
    /\ lastEvent' = Event("batchFinished", Null, 0)
    /\ UNCHANGED <<segments, editorVars, generationVars, chromaVars, serviceVars, sessionVars, overlayVideo>>

ImageRequestStartStep ==
    \E kind \in {"image", "auto"} : \E i \in DOMAIN SegmentIds :
        ImageRequestStart(kind, SegmentIds[i])

ImageRequestProgressStep ==
    \E kind \in {"image", "auto"} : \E i \in DOMAIN SegmentIds : \E step \in {1, 2} :
        ImageRequestProgress(kind, SegmentIds[i], step)

AutoImageDoneStep ==
    \E i \in DOMAIN SegmentIds : \E ok \in BOOLEAN : AutoImageDone(SegmentIds[i], ok)

VideoRequestStartStep == \E i \in DOMAIN SegmentIds : VideoRequestStart(SegmentIds[i])

NextBatch ==
    \/ GenerationAnalysisStep
    \/ PipelineImageDoneStep
    \/ PipelineVideoSnapshotStep
    \/ PipelineVideoDoneStep
    \/ handleStopGeneration
    \/ handleBatchGenerateImages
    \/ handleBatchAnimate
    \/ handleFullAutoGenerate
    \/ ImageRequestStartStep
    \/ ImageRequestProgressStep
    \/ ImageRequestDoneStep
    \/ AutoImageDoneStep
    \/ VideoRequestStartStep
    \/ VideoRequestDoneStep
    \/ BatchFinished

SpecBatch == Init /\ [][NextBatch]_vars

----------------------------------------------------------------------------
(* Prompt editing and regeneration: the handlers App hands to PromptSelector
   and VeoGenerator *)

\* the texts a user may save as image prompt and as animation prompt
PromptChoices == {"prompt of the analysis", "edited prompt", ""}

AnimationPromptChoices == {"motion of the analysis", "edited motion"}

MaxPromptEdits == 2

\* "Save" of the prompt editor
handleUpdateSegmentPrompts(id, prompt, animationPrompt) ==
    /\ IndexOf(segments, id) # 0
    /\ segments' = UpdatePrompts(segments, id, prompt, animationPrompt)
    /\ edits' = edits + 1
    /\ lastEvent' = Event("updatePrompts", id, 0)
    /\ UNCHANGED <<duration, segmentDrag, currentTime, activeSegment, tsUpdated>>
    /\ UNCHANGED <<generationVars, isBatchProcessing, chromaVars, serviceVars, sessionVars>>
    /\ overlayVideo' = Rendered(overlayVideo, segments', activeSegment')

\* handleRegenerateImage up to the checkApiKey of the handleGenerateSegmentImage it
\* awaits: the reset
handleRegenerateImage(id) ==
    /\ IndexOf(segments, id) # 0
    /\ ManualInFlight(requests) < MaxManualInFlight
    /\ segments' = RegenerateImageReset(segments, id)
    /\ requests' = [requests EXCEPT ![<<"regen-key", id>>] = @ + 1]
    /\ lastEvent' = Event("regenerateImage", id, 0)
    /\ UNCHANGED <<editorVars, isBatchProcessing, chromaVars, serviceVars, sessionVars>>
    /\ overlayVideo' = Rendered(overlayVideo, segments', activeSegment')
    /\ UNCHANGED <<pipelineState, stopGenerationRef, runs>>

\* the handleGenerateSegmentImage of a regeneration after its checkApiKey
RegenerateImageStart(id) ==
    /\ requests[<<"regen-key", id>>] > 0
    /\ segments' = ImageStarted(segments, id)
    /\ requests' = MoveRequest(requests, "regen-key", "image", id)
    /\ lastEvent' = Event("regenerateImageStart", id, 0)
    /\ UNCHANGED <<editorVars, isBatchProcessing, chromaVars, serviceVars, sessionVars>>
    /\ overlayVideo' = Rendered(overlayVideo, segments', activeSegment')
    /\ UNCHANGED <<pipelineState, stopGenerationRef, runs>>

\* handleRegenerateVideo up to the checkApiKey of the handleGenerateSegmentVideo it
\* awaits; it returns at once for a segment without image
handleRegenerateVideo(id) ==
    /\ IndexOf(segments, id) # 0
    /\ ManualInFlight(requests) < MaxManualInFlight
    /\ IF Find(segments, id).imageUrl = Null
       THEN UNCHANGED <<segments, requests>>
       ELSE /\ segments' = RegenerateVideoReset(segments, id)
            /\ requests' = [requests EXCEPT ![<<"video-key", id>>] = @ + 1]
    /\ lastEvent' = Event("regenerateVideo", id, 0)
    /\ UNCHANGED <<editorVars, isBatchProcessing, chromaVars, serviceVars, sessionVars>>
    /\ overlayVideo' = Rendered(overlayVideo, segments', activeSegment')
    /\ UNCHANGED <<pipelineState, stopGenerationRef, runs>>

\* "Regenerate Image" of PromptSelector and VeoGenerator (a segment with image
\* that is not generating) and "Save & Regenerate" of the prompt editor (50 ms
\* after the click, whatever the segment does by then)
RegenerateImageClick(id) == handleRegenerateImage(id)

\* "Regenerate Animation" of VeoGenerator: a segment with a video that is not
\* generating
RegenerateVideoClick(id) ==
    /\ IndexOf(segments, id) # 0
    /\ Find(segments, id).videoUrl # Null
    /\ Find(segments, id).status \notin {"generating-image", "generating-video"}
    /\ handleRegenerateVideo(id)

UpdatePromptsStep ==
    /\ edits < MaxPromptEdits
    /\ \E i \in DOMAIN SegmentIds : \E prompt \in PromptChoices :
          \E animationPrompt \in AnimationPromptChoices :
             handleUpdateSegmentPrompts(SegmentIds[i], prompt, animationPrompt)

RegenerateImageStep == \E i \in DOMAIN SegmentIds : RegenerateImageClick(SegmentIds[i])

RegenerateImageStartStep == \E i \in DOMAIN SegmentIds : RegenerateImageStart(SegmentIds[i])

RegenerateVideoStep == \E i \in DOMAIN SegmentIds : RegenerateVideoClick(SegmentIds[i])

\* prompt editing while the pipeline runs
NextPrompts ==
    \/ GenerationAnalysisStep
    \/ PipelineImageDoneStep
    \/ PipelineVideoSnapshotStep
    \/ PipelineVideoDoneStep
    \/ handleStopGeneration
    \/ UpdatePromptsStep

SpecPrompts == Init /\ [][NextPrompts]_vars

\* regeneration while the pipeline runs
NextDetail ==
    \/ GenerationAnalysisStep
    \/ PipelineImageDoneStep
    \/ PipelineVideoSnapshotStep
    \/ PipelineVideoDoneStep
    \/ handleStopGeneration
    \/ RegenerateImageStep
    \/ RegenerateImageStartStep
    \/ RegenerateVideoStep
    \/ VideoRequestStartStep
    \/ ImageRequestDoneStep
    \/ VideoRequestDoneStep

SpecDetail == Init /\ [][NextDetail]_vars

----------------------------------------------------------------------------
(* Chroma key: the key color of the settings and applyChromaKey on a frame.
   Distances are compared through their squares and the roundings are found by
   comparison, so that every value is the one of exact arithmetic; the settings
   of the model keep every product within 32 bits. *)

RECURSIVE Gcd(_, _)
Gcd(a, b) == IF b = 0 THEN a ELSE Gcd(b, a % b)

\* colorDistance is the square root of this sum
colorDistanceSquared(r1, g1, b1, r2, g2, b2) ==
    (r1 - r2) * (r1 - r2) + (g1 - g2) * (g1 - g2) + (b1 - b2) * (b1 - b2)

\* the distance of square d2 is at least a / b (b > 0)
DistanceAtLeast(d2, a, b) == a <= 0 \/ d2 * b * b >= a * a

\* Math.round(a / b) for a >= 0, b > 0
MathRound(a, b) == (2 * a + b) \div (2 * b)

\* the byte stored for Math.min(255, Math.max(0, (distance / toleranceThreshold)
\* * 255 * (1 + softnessRange / 50))), which is distance * 2 * (50 + softness)
\* / tolerance: a Uint8ClampedArray rounds to the nearest byte, a tie to the even one
EdgeAlpha(d2, tolerance, softness) ==
    LET g == Gcd(2 * (50 + softness), tolerance)
        p == (2 * (50 + softness)) \div g
        q == tolerance \div g
        reached == {n \in 0..255 : DistanceAtLeast(d2, (2 * n - 1) * q, 2 * p)}
        m == CHOOSE n \in reached : \A k \in reached : k <= n
        tie == m > 0 /\ d2 * 4 * p * p = (2 * m - 1) * q * (2 * m - 1) * q
    IN  IF tie /\ m % 2 = 1 THEN m - 1 ELSE m

\* Math.round(((distance - toleranceThreshold) / softnessRange) * 255), for a
\* distance from toleranceThreshold = 51 * tolerance / 20 up to softnessRange more
BlendAlpha(d2, tolerance, softness) ==
    LET g == Gcd(Gcd(2601 * tolerance, 2 * softness), 1020)
        t0 == (2601 * tolerance) \div g
        s0 == (2 * softness) \div g
        b0 == 1020 \div g
        reached == {n \in 0..255 : DistanceAtLeast(d2, t0 + (2 * n - 1) * s0, b0)}
    IN  CHOOSE n \in reached : \A k \in reached : k <= n

\* the body of the loop of applyChromaKey for the pixel px = <<r, g, b, a>>
KeyedPixel(px, keyColor, settings) ==
    LET d2 == colorDistanceSquared(px[1], px[2], px[3], keyColor.r, keyColor.g, keyColor.b)
        tolerance == settings.tolerance
        softness == settings.edgeSoftness
        inTolerance == ~DistanceAtLeast(d2, 51 * tolerance, 20)
        inSoftness == softness > 0 /\ ~DistanceAtLeast(d2, 51 * tolerance + 20 * softness, 20)
        alpha == IF inTolerance
                 THEN (IF softness > 0 THEN EdgeAlpha(d2, tolerance, softness) ELSE 0)
                 ELSE IF inSoftness THEN BlendAlpha(d2, tolerance, softness)
                 ELSE px[4]
        greenExcess == px[2] - Max(px[1], px[3])
        green == IF settings.spillSuppression > 0 /\ alpha > 0 /\ greenExcess > 0
                 THEN MathRound(1000 * px[2] - 7 * greenExcess * settings.spillSuppression, 1000)
                 ELSE px[2]
    IN  <<px[1], green, px[3], alpha>>

\* applyChromaKey, except that settings.enabled is not looked at
applyChromaKeyAlways(data, settings) ==
    LET keyColor == hexToRgb(settings.keyColor)
        pixel(k) == KeyedPixel(SubSeq(data, 4 * k - 3, 4 * k), keyColor, settings)
    IN  [i \in DOMAIN data |-> pixel((i + 3) \div 4)[((i - 1) % 4) + 1]]

\* applyChromaKey(imageData, settings): the bytes of imageData.data afterwards
applyChromaKey(data, settings) ==
    IF ~settings.enabled THEN data
    ELSE LET keyColor == hexToRgb(settings.keyColor)
             pixel(k) == KeyedPixel(SubSeq(data, 4 * k - 3, 4 * k), keyColor, settings)
         IN  [i \in DOMAIN data |-> pixel((i + 3) \div 4)[((i - 1) % 4) + 1]]

\* the pixels under the eyedropper: every channel takes values of one and of two
\* hex digits
PixelChoices ==
    {<<0, 0, 0>>, <<255, 255, 255>>, <<15, 16, 9>>, <<16, 240, 15>>, <<9, 5, 160>>,
     <<200, 30, 40>>}

\* the texts a key color is set to
KeyColorChoices ==
    {<<"#", "0", "0", "F", "F", "0", "0">>,
     <<"C", "8", "1", "E", "2", "8">>,
     <<"#", "0", "f", "0">>,
     <<"#", "0", "0", "f", "f", "0", "g">>,
     <<"#", "c", "8", "1", "e", "2", "8", "\n">>,
     <<>>}

ToleranceChoices == {0, 40}

SoftnessChoices == {0, 10}

SpillChoices == {0, 50}

\* the frames drawn to the canvas, two pixels each: the key green and a
\* foreground red, an off-key green and a half-transparent greenish foreground,
\* two opaque greens at the distances 101.1 and 105 from pure green
FrameChoices ==
    {<<0, 255, 0, 255, 200, 30, 40, 255>>,
     <<16, 240, 15, 255, 60, 200, 60, 128>>,
     <<60, 200, 60, 255, 0, 150, 0, 255>>}

MaxApplications == 2

\* handleImageClick while picking: the color of the pixel under the pointer, as
\* sampleColorFromImage returns it, becomes the key color of the settings
handleImageClick(r, g, b) ==
    /\ chromaSettings' = [chromaSettings EXCEPT !.keyColor = rgbToHex(r, g, b)]
    /\ lastEvent' = Event("pickColor", Null, 65536 * r + 256 * g + b)
    /\ UNCHANGED <<imageData, applications>>
    /\ UNCHANGED <<segments, editorVars, generationVars, isBatchProcessing, overlayVideo, serviceVars, sessionVars>>

\* ChromaKeyControls: handleColorChange
handleColorChange(value) ==
    /\ chromaSettings' = [chromaSettings EXCEPT !.keyColor = value]
    /\ lastEvent' = Event("colorChange", Null, 0)
    /\ UNCHANGED <<imageData, applications>>
    /\ UNCHANGED <<segments, editorVars, generationVars, isBatchProcessing, overlayVideo, serviceVars, sessionVars>>

\* ChromaKeyControls: handleToggle
handleToggle ==
    /\ chromaSettings' = [chromaSettings EXCEPT !.enabled = ~chromaSettings.enabled]
    /\ lastEvent' = Event("toggle", Null, 0)
    /\ UNCHANGED <<imageData, applications>>
    /\ UNCHANGED <<segments, editorVars, generationVars, isBatchProcessing, overlayVideo, serviceVars, sessionVars>>

\* ChromaKeyControls: handleSliderChange
handleSliderChange(key, value) ==
    /\ chromaSettings' = [chromaSettings EXCEPT ![key] = value]
    /\ lastEvent' = Event("sliderChange", Null, value)
    /\ UNCHANGED <<imageData, applications>>
    /\ UNCHANGED <<segments, editorVars, generationVars, isBatchProcessing, overlayVideo, serviceVars, sessionVars>>

\* ChromaKeyControls: handleReset (of the chroma key settings)
handleChromaReset ==
    /\ chromaSettings' = DEFAULT_CHROMA_KEY_SETTINGS
    /\ lastEvent' = Event("chromaReset", Null, 0)
    /\ UNCHANGED <<imageData, applications>>
    /\ UNCHANGED <<segments, editorVars, generationVars, isBatchProcessing, overlayVideo, serviceVars, sessionVars>>

\* createChromaKeyCanvas: ctx.drawImage and ctx.getImageData give the bytes of
\* the frame
getImageData(frame) ==
    /\ imageData' = frame
    /\ applications' = 0
    /\ lastEvent' = Event("getImageData", Null, 0)
    /\ UNCHANGED chromaSettings
    /\ UNCHANGED <<segments, editorVars, generationVars, isBatchProcessing, overlayVideo, serviceVars, sessionVars>>

\* a call of applyChromaKey on the image data in work with the settings in use
ApplyChromaKeyCall ==
    /\ imageData # <<>>
    /\ applications < MaxApplications
    /\ imageData' = applyChromaKey(imageData, chromaSettings)
    /\ applications' = applications + 1
    /\ lastEvent' = Event("applyChromaKey", Null, 0)
    /\ UNCHANGED chromaSettings
    /\ UNCHANGED <<segments, editorVars, generationVars, isBatchProcessing, overlayVideo, serviceVars, sessionVars>>

ImageClickStep ==
    \E pixel \in PixelChoices : handleImageClick(pixel[1], pixel[2], pixel[3])

ColorChangeStep == \E value \in KeyColorChoices : handleColorChange(value)

SliderChangeStep ==
    \/ \E value \in ToleranceChoices : handleSliderChange("tolerance", value)
    \/ \E value \in SoftnessChoices : handleSliderChange("edgeSoftness", value)
    \/ \E value \in SpillChoices : handleSliderChange("spillSuppression", value)

GetImageDataStep == \E frame \in FrameChoices : getImageData(frame)

NextChroma ==
    \/ ImageClickStep
    \/ ColorChangeStep
    \/ handleToggle
    \/ SliderChangeStep
    \/ handleChromaReset
    \/ GetImageDataStep
    \/ ApplyChromaKeyCall

SpecChroma == Init /\ [][NextChroma]_vars

----------------------------------------------------------------------------
(* Overlay playback: the pipeline fills the segments while the base video and
   the overlay video play *)

\* the steps the clock of the playing overlay video makes between two handlers
\* (0.25 s and 0.5 s)
OverlayAdvanceChoices == {TicksPerSecond \div 4, TicksPerSecond \div 2}

\* the clock of the overlay video is followed up to this many seconds
MaxOverlayClock == 5

\* the overlay video plays on by itself
OverlayAdvance(d) ==
    /\ overlayVideo.src # Null
    /\ overlayVideo.currentTime + d <= S(MaxOverlayClock)
    /\ overlayVideo' = [overlayVideo EXCEPT !.currentTime = @ + d]
    /\ lastEvent' = Event("overlayAdvance", Null, d)
    /\ UNCHANGED <<segments, editorVars, generationVars, isBatchProcessing, chromaVars, serviceVars, sessionVars>>

OverlayAdvanceStep == \E d \in OverlayAdvanceChoices : OverlayAdvance(d)

\* the analysis of a 60 s video
OverlayAnalysisStep == AnalysisComplete /\ duration' = S(60)

NextOverlay ==
    \/ OverlayAnalysisStep
    \/ PipelineImageDoneStep
    \/ PipelineVideoSnapshotStep
    \/ PipelineVideoDoneStep
    \/ TimeUpdateStep
    \/ OverlayAdvanceStep

SpecOverlay == Init /\ [][NextOverlay]_vars

----------------------------------------------------------------------------
(* Sessions: Reset discards the analysis, a new video is selected and analysed *)

\* App.handleReset ('Start Over' / 'Try Again'): the analysis and the detail
\* copy are dropped, the stop flag is set and the pipeline state is cleared; the
\* invocations of runAutomaticPipeline under way are not touched
handleReset ==
    /\ segments # <<>>
    /\ segments' = <<>>
    /\ appActiveSegment' = NoSegment
    /\ isBatchProcessing' = FALSE
    /\ stopGenerationRef' = TRUE
    /\ pipelineState' = IdlePipeline
    /\ discarded' = DOMAIN runs
    /\ lastEvent' = Event("reset", Null, 0)
    /\ UNCHANGED <<runs, requests, editorVars, chromaVars, serviceVars>>
    /\ overlayVideo' = Rendered(overlayVideo, segments', activeSegment')

\* App.handleFileSelect up to its first await: the stop flag is cleared
handleFileSelect ==
    /\ segments = <<>>
    /\ stopGenerationRef' = FALSE
    /\ lastEvent' = Event("fileSelect", Null, 0)
    /\ UNCHANGED <<segments, pipelineState, runs, requests, editorVars, isBatchProcessing,
                   chromaVars, serviceVars, sessionVars, overlayVideo>>

\* Reset, while the model has room for the run of one more analysis
ResetStep == Len(runs) < MaxRuns /\ handleReset

NextSession ==
    \/ handleFileSelect
    \/ GenerationAnalysisStep
    \/ PipelineImageDoneStep
    \/ PipelineVideoSnapshotStep
    \/ PipelineVideoDoneStep
    \/ ResetStep

SpecSession == Init /\ [][NextSession]_vars

----------------------------------------------------------------------------
(* Detail view: App.activeSegment is a copy of the segment shown by
   VeoGenerator; the generation handlers called from the detail view update the
   collection and, with setActiveSegment(prev => prev ? {...prev, ...} : null),
   the copy *)

\* setActiveSegment(prev => prev ? update(prev) : null), the update being one of
\* the updaters of the collection
UpdateActive(prev, updated) == IF prev = NoSegment THEN NoSegment ELSE updated[1]

\* VeoGenerator: isGenerating
IsGenerating(segment) == segment.status \in {"generating-image", "generating-video"}

\* App.handleViewSegment(segment)
handleViewSegment(id) ==
    /\ IndexOf(segments, id) # 0
    /\ appActiveSegment' = Find(segments, id)
    /\ lastEvent' = Event("viewSegment", id, 0)
    /\ UNCHANGED <<segments, editorVars, generationVars, isBatchProcessing, chromaVars,
                   serviceVars, discarded, overlayVideo>>

\* App.handleBackToTimeline
handleBackToTimeline ==
    /\ appActiveSegment # NoSegment
    /\ appActiveSegment' = NoSegment
    /\ lastEvent' = Event("backToTimeline", Null, 0)
    /\ UNCHANGED <<segments, editorVars, generationVars, isBatchProcessing, chromaVars,
                   serviceVars, discarded, overlayVideo>>

\* VeoGenerator 'Generate Image' (shown for a copy without image that is not
\* generating): handleGenerateSegmentImage(segment) up to its awaited generation
DetailGenerateImage ==
    /\ appActiveSegment # NoSegment
    /\ ~IsGenerating(appActiveSegment)
    /\ appActiveSegment.imageUrl = Null
    /\ segments # <<>>
    /\ ManualInFlight(requests) < MaxManualInFlight
    /\ segments' = ImageStarted(segments, appActiveSegment.id)
    /\ appActiveSegment' =
          UpdateActive(appActiveSegment, ImageStarted(<<appActiveSegment>>, appActiveSegment.id))
    /\ requests' = [requests EXCEPT ![<<"detail-image", appActiveSegment.id>>] = @ + 1]
    /\ lastEvent' = Event("detailGenerateImage", appActiveSegment.id, 0)
    /\ UNCHANGED <<editorVars, isBatchProcessing, chromaVars, serviceVars, discarded>>
    /\ overlayVideo' = Rendered(overlayVideo, segments', activeSegment')
    /\ UNCHANGED <<pipelineState, stopGenerationRef, runs>>

\* VeoGenerator 'Animate with Veo' (shown for a copy with an image and no video
\* that is not generating): handleGenerateSegmentVideo(segment) up to its
\* awaited generation
DetailAnimate ==
    /\ appActiveSegment # NoSegment
    /\ ~IsGenerating(appActiveSegment)
    /\ appActiveSegment.imageUrl # Null
    /\ appActiveSegment.videoUrl = Null
    /\ ManualInFlight(requests) < MaxManualInFlight
    /\ segments' = VideoStarted(segments, appActiveSegment.id)
    /\ appActiveSegment' =
          UpdateActive(appActiveSegment, VideoStarted(<<appActiveSegment>>, appActiveSegment.id))
    /\ requests' = [requests EXCEPT ![<<"detail-video", appActiveSegment.id>>] = @ + 1]
    /\ lastEvent' = Event("detailAnimate", appActiveSegment.id, 0)
    /\ UNCHANGED <<editorVars, isBatchProcessing, chromaVars, serviceVars, discarded>>
    /\ overlayVideo' = Rendered(overlayVideo, segments', activeSegment')
    /\ UNCHANGED <<pipelineState, stopGenerationRef, runs>>

\* handleGenerateSegmentImage called from the detail view: the awaited calls
\* return (ok) or throw; the copy in the detail view at that time is updated
DetailImageDone(id, ok) ==
    /\ requests[<<"detail-image", id>>] > 0
    /\ segments' = IF ok THEN ImageSucceeded(segments, id) ELSE ImageFailed(segments, id)
    /\ appActiveSegment' =
          IF appActiveSegment = NoSegment THEN NoSegment
          ELSE IF ok
               THEN UpdateActive(appActiveSegment,
                                 ImageSucceeded(<<appActiveSegment>>, appActiveSegment.id))
               ELSE UpdateActive(appActiveSegment,
                                 ImageFailed(<<appActiveSegment>>, appActiveSegment.id))
    /\ requests' = [requests EXCEPT ![<<"detail-image", id>>] = @ - 1]
    /\ lastEvent' = Event(IF ok THEN "detailImageSuccess" ELSE "detailImageError", id, 0)
    /\ UNCHANGED <<editorVars, isBatchProcessing, chromaVars, serviceVars, discarded>>
    /\ overlayVideo' = Rendered(overlayVideo, segments', activeSegment')
    /\ UNCHANGED <<pipelineState, stopGenerationRef, runs>>

\* handleGenerateSegmentVideo called from the detail view: generateVeoAnimation
\* returns (ok) or throws; the catch block does not write the copy
DetailVideoDone(id, ok) ==
    /\ requests[<<"detail-video", id>>] > 0
    /\ segments' = IF ok THEN VideoSucceeded(segments, id) ELSE VideoFailed(segments, id)
    /\ appActiveSegment' =
          IF appActiveSegment # NoSegment /\ ok
          THEN UpdateActive(appActiveSegment,
                            VideoSucceeded(<<appActiveSegment>>, appActiveSegment.id))
          ELSE appActiveSegment
    /\ requests' = [requests EXCEPT ![<<"detail-video", id>>] = @ - 1]
    /\ lastEvent' = Event(IF ok THEN "detailVideoSuccess" ELSE "detailVideoError", id, 0)
    /\ UNCHANGED <<editorVars, isBatchProcessing, chromaVars, serviceVars, discarded>>
    /\ overlayVideo' = Rendered(overlayVideo, segments', activeSegment')
    /\ UNCHANGED <<pipelineState, stopGenerationRef, runs>>

ViewSegmentStep == \E i \in DOMAIN SegmentIds : handleViewSegment(SegmentIds[i])

DetailImageDoneStep ==
    \E i \in DOMAIN SegmentIds : \E ok \in BOOLEAN : DetailImageDone(SegmentIds[i], ok)

DetailVideoDoneStep ==
    \E i \in DOMAIN SegmentIds : \E ok \in BOOLEAN : DetailVideoDone(SegmentIds[i], ok)

NextView ==
    \/ GenerationAnalysisStep
    \/ PipelineImageDoneStep
    \/ PipelineVideoSnapshotStep
    \/ PipelineVideoDoneStep
    \/ ViewSegmentStep
    \/ handleBackToTimeline
    \/ DetailGenerateImage
    \/ DetailAnimate
    \/ DetailImageDoneStep
    \/ DetailVideoDoneStep

SpecView == Init /\ [][NextView]_vars

----------------------------------------------------------------------------
(* Termination of the pipeline: the runs with Stop and Resume, the poll loop
   of generateVeoAnimation included *)

\* polls of one video operation that find it not done
MaxPolls == 2

\* generateVeoAnimation, the poll loop: getVideosOperation returns an operation
\* that is not done and the loop waits for the next poll
PipelineVideoPoll(r) ==
    /\ r \in DOMAIN runs
    /\ runs[r].pc = "video-await"
    /\ runs[r].polls < MaxPolls
    /\ runs' = [runs EXCEPT ![r].polls = @ + 1]
    /\ lastEvent' = Event("poll", RunSegment(runs[r]), runs[r].polls + 1)
    /\ UNCHANGED <<segments, pipelineState, stopGenerationRef, requests, editorVars,
                   isBatchProcessing, chromaVars, serviceVars, sessionVars, overlayVideo>>

PipelineVideoPollStep == \E r \in 1..MaxRuns : PipelineVideoPoll(r)

NextTermination ==
    \/ GenerationAnalysisStep
    \/ PipelineImageDoneStep
    \/ PipelineVideoSnapshotStep
    \/ PipelineVideoPollStep
    \/ PipelineVideoDoneStep
    \/ handleStopGeneration
    \/ handleResumeGeneration

\* every awaited call of a run settles: extractFrameFromVideo and
\* generateImageAsset, the promise that reads the analysis, and
\* generateVeoAnimation (its operation is done after finitely many polls)
ExternalCallsReturn ==
    \A r \in 1..MaxRuns :
        /\ WF_vars(\E ok \in BOOLEAN : PipelineImageDone(r, ok))
        /\ WF_vars(PipelineVideoSnapshot(r))
        /\ WF_vars(\E ok \in BOOLEAN : PipelineVideoDone(r, ok))

SpecTermination == Init /\ [][NextTermination]_vars /\ ExternalCallsReturn

----------------------------------------------------------------------------
(* geminiService: generateImageAsset, the two-step image generation.  An
   invocation is a record: pc is the await it stands at ("scene-await" in
   generateSceneWithOverlay, "green-await" in generateGreenScreenBackground) or
   "returned" / "rejected"; progress is the list of the onProgress calls it
   made; scene is the outcome of phase 1, green the one of phase 2 ("none"
   while the phase has not been invoked); result is the value it resolved with. *)

MaxAssetCalls == 3

\* what ai.models.generateContent gives: a response with an image part, a
\* response whose parts hold no inlineData, a response without candidates, or a
\* rejection
ResponseChoices == {"image", "text", "no-candidates", "throws"}

\* the imageUrl a step function builds from the response, Null for ""
ImageOf(response, url) == IF response = "image" THEN url ELSE Null

\* one call of onProgress(step, message, intermediateImageUrl), none when
\* generateImageAsset was given no callback
Progress(call, step, image) ==
    IF call.onProgress THEN <<[step |-> step, image |-> image]>> ELSE <<>>

\* generateImageAsset after the await of generateSceneWithOverlay, except that
\* the second phase is entered whatever the first one gave
AfterSceneGoesOn(call, response) ==
    [call EXCEPT !.pc = "green-await",
                 !.scene = IF ImageOf(response, "scene") = Null THEN "failed" ELSE "scene",
                 !.green = "awaited",
                 !.progress = @ \o Progress(call, 1, ImageOf(response, "scene"))
                                \o Progress(call, 2, ImageOf(response, "scene"))]

\* generateImageAsset after the await of generateSceneWithOverlay: the step
\* function throws without an image, otherwise step 1 is reported complete,
\* step 2 is announced and generateGreenScreenBackground is invoked
AfterScene(call, response) ==
    IF ImageOf(response, "scene") = Null
    THEN [call EXCEPT !.pc = "rejected", !.scene = "failed"]
    ELSE [call EXCEPT !.pc = "green-await", !.scene = "scene", !.green = "awaited",
                      !.progress = @ \o Progress(call, 1, "scene") \o Progress(call, 2, "scene")]

\* generateImageAsset after the await of generateGreenScreenBackground
AfterGreen(call, response) ==
    IF ImageOf(response, "green") = Null
    THEN [call EXCEPT !.pc = "rejected", !.green = "failed"]
    ELSE [call EXCEPT !.pc = "returned", !.green = "green",
                      !.progress = @ \o Progress(call, 2, call.scene),
                      !.result = [finalImageUrl |-> "green",
                                  intermediateImageUrl |-> call.scene]]

\* generateImageAsset(promptText, imageBase64, aspectRatio, onProgress, segmentId)
\* up to its first await
generateImageAsset(onProgress) ==
    /\ Len(assetCalls) < MaxAssetCalls
    /\ LET call == [pc |-> "scene-await", onProgress |-> onProgress, progress |-> <<>>,
                    scene |-> "none", green |-> "none", result |-> Null]
       IN  assetCalls' = Append(assetCalls, [call EXCEPT !.progress = Progress(call, 1, Null)])
    /\ lastEvent' = Event("generateImageAsset", Null, 0)
    /\ UNCHANGED <<segments, editorVars, generationVars, isBatchProcessing, chromaVars,
                   overlayVideo, sessionVars>>

\* the generateContent of generateSceneWithOverlay settles
generateSceneWithOverlay(c, response) ==
    /\ c \in DOMAIN assetCalls
    /\ assetCalls[c].pc = "scene-await"
    /\ assetCalls' = [assetCalls EXCEPT ![c] = AfterScene(@, response)]
    /\ lastEvent' = Event("generateSceneWithOverlay", Null, c)
    /\ UNCHANGED <<segments, editorVars, generationVars, isBatchProcessing, chromaVars,
                   overlayVideo, sessionVars>>

\* the generateContent of generateGreenScreenBackground settles
generateGreenScreenBackground(c, response) ==
    /\ c \in DOMAIN assetCalls
    /\ assetCalls[c].pc = "green-await"
    /\ assetCalls' = [assetCalls EXCEPT ![c] = AfterGreen(@, response)]
    /\ lastEvent' = Event("generateGreenScreenBackground", Null, c)
    /\ UNCHANGED <<segments, editorVars, generationVars, isBatchProcessing, chromaVars,
                   overlayVideo, sessionVars>>

GenerateImageAssetStep == \E onProgress \in BOOLEAN : generateImageAsset(onProgress)

SceneStep ==
    \E c \in 1..MaxAssetCalls : \E response \in ResponseChoices :
        generateSceneWithOverlay(c, response)

GreenStep ==
    \E c \in 1..MaxAssetCalls : \E response \in ResponseChoices :
        generateGreenScreenBackground(c, response)

NextService ==
    \/ GenerateImageAssetStep
    \/ SceneStep
    \/ GreenStep

SpecService == Init /\ [][NextService]_vars

----------------------------------------------------------------------------
(* Properties of the timeline model *)

\* the segment the last event was about
LastSegment == Find(segments, lastEvent.id)

\* the collection is non-decreasing by timestamp
Sorted(segs) == \A i \in 1..(Len(segs) - 1) : segs[i].timestamp <= segs[i + 1].timestamp

\* the ids of the segments that contain the time and start earliest among those
EarliestContaining(segs, time) ==
    LET cands == {i \in DOMAIN segs :
                     time >= segs[i].timestamp /\ time < segs[i].timestamp + segs[i].duration}
    IN  IF cands = {} THEN {Null}
        ELSE {segs[i].id : i \in {c \in cands : \A d \in cands : segs[c].timestamp <= segs[d].timestamp}}

\* C1: the timestamp committed by a pointer move of a 'move' drag satisfies
\* timestamp >= 0 and timestamp + duration <= totalDuration.
C1_MoveStaysInsideVideo ==
    lastEvent.op = "move" =>
        /\ LastSegment.timestamp >= 0
        /\ LastSegment.timestamp + LastSegment.duration <= duration

\* C2: the pair committed by a pointer move of a 'resize-start' drag satisfies
\* timestamp >= 0 and duration >= 1 s.
C2_ResizeStartBounds ==
    lastEvent.op = "resize-start" =>
        /\ LastSegment.timestamp >= 0
        /\ LastSegment.duration >= S(MinDuration)

\* a 'resize-start' drag pushed far to the right has stopped at the 1 s minimum
C2_Witness ==
    /\ lastEvent.op = "resize-start"
    /\ lastEvent.delta = S(70)
    /\ LastSegment.duration = S(MinDuration)
    /\ LastSegment.timestamp > 0

\* C3: the duration committed by a pointer move of a 'resize-end' drag satisfies
\* timestamp + duration <= totalDuration.
C3_ResizeEndStaysInsideVideo ==
    lastEvent.op = "resize-end" =>
        LastSegment.timestamp + LastSegment.duration <= duration

\* C4: in every state after the analysis every segment satisfies duration >= 1 s,
\* timestamp >= 0 and timestamp + duration <= totalDuration.
C4_SegmentsInsideVideo ==
    \A i \in DOMAIN segments :
        /\ segments[i].duration >= S(MinDuration)
        /\ segments[i].timestamp >= 0
        /\ segments[i].timestamp + segments[i].duration <= duration

\* C5: every duration update (sidebar buttons, resize-start, resize-end) leaves the
\* duration within [1 s, min(30 s, totalDuration - timestamp)].
C5_DurationUpdateRange ==
    lastEvent.op \in {"decrease", "increase", "resize-start", "resize-end"} =>
        /\ LastSegment.duration >= S(MinDuration)
        /\ LastSegment.duration <= Min(S(MaxDuration), duration - LastSegment.timestamp)

\* C6: once handleUpdateSegmentTimestamp has run, the collection is non-decreasing
\* by timestamp in every state: the sort belongs to the update itself.
C6_SortedAfterTimestampUpdate == tsUpdated => Sorted(segments)

\* a 'move' drag has carried a segment past its neighbour and the order followed
C6_Witness ==
    /\ lastEvent.op = "move"
    /\ Len(segments) = 2
    /\ segments[1].id = SegmentIds[2]
    /\ segments[1].timestamp < segments[2].timestamp
    /\ segmentDrag.segmentId = SegmentIds[2]
    /\ segmentDrag.initialTimestamp > segments[2].timestamp

\* the scenario of C7: segment {timestamp 10, duration 5} on a 60 s timeline,
\* 'resize-end' pointer move worth +20 s
C7_Scenario ==
    /\ lastEvent.op = "resize-end"
    /\ lastEvent.delta = S(20)
    /\ duration = S(60)
    /\ segmentDrag.initialTimestamp = S(10)
    /\ segmentDrag.initialDuration = S(5)

\* C7 as stated: the scenario commits duration 50 (= 60 - 10).
C7_CommitsFifty == C7_Scenario => LastSegment.duration = S(50)

\* C7 amended: the scenario commits duration 25 (= 5 + 20), which is below the
\* limit 50 (= 60 - 10).
C7_CommitsTwentyFive == C7_Scenario => LastSegment.duration = S(25)

\* the scenario of C7 has happened
C7_Witness == C7_Scenario /\ LastSegment.timestamp = S(10)

\* C8: after a time update the active segment is the earliest-starting segment
\* with timestamp <= T < timestamp + duration, and null when there is none.
C8_ActiveIsEarliestContaining ==
    lastEvent.op = "timeUpdate" => activeSegment \in EarliestContaining(segments, currentTime)

----------------------------------------------------------------------------
(* Properties of the generation model *)

\* the transitions of the status state machine
AllowedTransitions ==
    {<<"idle", "generating-image">>,
     <<"generating-image", "image-success">>,
     <<"generating-image", "error">>,
     <<"image-success", "generating-video">>,
     <<"generating-video", "video-success">>,
     <<"generating-video", "error">>,
     <<"error", "generating-image">>}

\* a regeneration reset: to idle with image and video cleared, or to
\* image-success with the video cleared and the image kept
IsReset(old, new) ==
    \/ new.status = "idle" /\ new.imageUrl = Null /\ new.videoUrl = Null
    \/ /\ new.status = "image-success"
       /\ new.videoUrl = Null
       /\ old.imageUrl # Null
       /\ new.imageUrl = old.imageUrl

\* C9: every change of a segment's status is an allowed transition or a
\* regeneration reset.
C9_OnlyAllowedTransitions ==
    [][\A i \in DOMAIN segments :
          LET old == segments[i]
              new == Find(segments', old.id)
          IN  \/ new.status = old.status
              \/ <<old.status, new.status>> \in AllowedTransitions
              \/ IsReset(old, new)]_vars

\* C10: at every moment at most one generation request is in flight per segment.
C10_OneRequestPerSegment ==
    \A i \in DOMAIN segments : InFlight(segments[i].id) <= 1

\* a run issues a new generation request in this step
StartsRequest(r) ==
    /\ runs'[r].pc \in {"image-await", "video-await"}
    /\ <<runs'[r].pc, runs'[r].i>> # <<runs[r].pc, runs[r].i>>

\* C11: once Stop has been signalled during a pipeline run, that run starts no
\* generation request for any further segment.
C11_NoRequestAfterStop ==
    [][\A r \in DOMAIN runs : runs[r].stopped => ~StartsRequest(r)]_vars

\* the fields of a segment that a stop must leave alone
Core(s) == <<s.status, s.imageUrl, s.videoUrl, s.error>>

\* C12: while a stop is signalled, the stop itself and every step of the stopped
\* run leave status, imageUrl, videoUrl and error of every segment other than
\* the one whose request was in flight as they were.
C12_StopKeepsUnstartedSegments ==
    [][(/\ stopGenerationRef'
        /\ lastEvent'.op \in {"stop", "imageSuccess", "imageError", "videoSuccess",
                               "videoError", "videoPhase"})
            => \A i \in DOMAIN segments :
                  segments[i].id # lastEvent'.id => Core(segments'[i]) = Core(segments[i])]_vars

\* a stopped run has returned after its request in flight and the segment it
\* never started is still idle
C12_Witness ==
    /\ stopGenerationRef
    /\ pipelineState.isPaused
    /\ Len(runs) = 1
    /\ runs[1].pc = "done"
    /\ lastEvent.op \in {"imageSuccess", "imageError"}
    /\ lastEvent.id = SegmentIds[1]
    /\ Find(segments, SegmentIds[2]).status = "idle"

\* the segment a run has just started in this step, if any
StartedBy(r, s) ==
    /\ StartsRequest(r)
    /\ RunSegment(runs'[r]) = s.id
    /\ Find(segments', s.id).status \in {"generating-image", "generating-video"}

\* C13: a failed generation sets its segment to 'error' with a message, changes
\* no other segment (but the one the run starts next), and a run that is not
\* stopped goes on to the next segment it has left.
C13_FailureIsIsolated ==
    [][lastEvent'.op \in {"imageError", "videoError"}
          => /\ Find(segments', lastEvent'.id).status = "error"
             /\ Find(segments', lastEvent'.id).error # Null
             /\ \A i \in DOMAIN segments :
                    segments[i].id # lastEvent'.id
                       => \/ segments'[i] = segments[i]
                          \/ \E r \in DOMAIN runs : StartedBy(r, segments[i])
             /\ \A r \in DOMAIN runs :
                    (runs'[r] # runs[r] /\ ~stopGenerationRef)
                       => /\ (/\ runs[r].pc = "image-await"
                              /\ \E j \in (runs[r].i + 1)..Len(runs[r].snapshot) :
                                     runs[r].snapshot[j].status = "idle")
                                 => runs'[r].pc = "image-await" /\ runs'[r].i > runs[r].i
                          /\ (/\ runs[r].pc = "video-await"
                              /\ \E j \in (runs[r].i + 1)..Len(runs[r].snapshot) :
                                     /\ runs[r].snapshot[j].status = "image-success"
                                     /\ runs[r].snapshot[j].imageUrl # Null)
                                 => runs'[r].pc = "video-await" /\ runs'[r].i > runs[r].i]_vars

\* the image of the first segment has failed and the run is generating the second
C13_Witness ==
    /\ lastEvent.op = "imageError"
    /\ lastEvent.id = SegmentIds[1]
    /\ Find(segments, SegmentIds[1]).status = "error"
    /\ Find(segments, SegmentIds[1]).error # Null
    /\ Len(runs) = 1
    /\ runs[1].pc = "image-await"
    /\ RunSegment(runs[1]) = SegmentIds[2]
    /\ Find(segments, SegmentIds[2]).status = "generating-image"

----------------------------------------------------------------------------
(* Properties of the batch model *)

\* the updates a handler invocation makes for its segment
RequestUpdates ==
    {"imageStart", "imageProgress", "imageSuccess", "imageError",
     "videoStart", "videoSuccess", "videoError"}

\* C14: every start, progress, success and failure update of a request of
\* handleGenerateSegmentImage / Video leaves every other segment as it was, in
\* whatever order the requests of different segments complete.
C14_RequestWritesOwnSegment ==
    [][(lastEvent'.op \in RequestUpdates /\ runs' = runs)
          => /\ DOMAIN segments' = DOMAIN segments
             /\ \A i \in DOMAIN segments :
                   segments[i].id # lastEvent'.id => segments'[i] = segments[i]]_vars

\* a batch has two videos in flight and the request of the second segment has
\* returned before the request of the first
C14_Witness ==
    /\ isBatchProcessing
    /\ lastEvent.op = "videoSuccess"
    /\ lastEvent.id = SegmentIds[2]
    /\ Find(segments, SegmentIds[2]).status = "video-success"
    /\ requests[<<"video", SegmentIds[1]>>] = 1
    /\ Find(segments, SegmentIds[1]).status = "generating-video"
    /\ \A r \in DOMAIN runs : runs[r].pc = "done"

----------------------------------------------------------------------------
(* Properties of prompt editing and regeneration *)

\* C15: handleUpdateSegmentPrompts replaces prompt and animationPrompt of its
\* segment and nothing else: every other field of that segment and every other
\* segment are as before, whatever the status of the segment.
C15_UpdatePromptsFrame ==
    [][lastEvent'.op = "updatePrompts"
          => /\ DOMAIN segments' = DOMAIN segments
             /\ \A i \in DOMAIN segments :
                   IF segments[i].id = lastEvent'.id
                   THEN segments'[i] = [segments[i] EXCEPT
                                           !.prompt = segments'[i].prompt,
                                           !.animationPrompt = segments'[i].animationPrompt]
                   ELSE segments'[i] = segments[i]]_vars

\* the prompts of a video-success segment have been replaced, the animation
\* prompt by a new text and the image prompt by the empty text
C15_Witness ==
    /\ lastEvent.op = "updatePrompts"
    /\ Find(segments, lastEvent.id).status = "video-success"
    /\ Find(segments, lastEvent.id).videoUrl # Null
    /\ Find(segments, lastEvent.id).imageUrl # Null
    /\ Find(segments, lastEvent.id).prompt = ""
    /\ Find(segments, lastEvent.id).animationPrompt = "edited motion"

\* C16: handleRegenerateImage first leaves its segment idle without image and
\* video; the start of the generation that follows writes 'generating-image' and
\* neither url, so that a start that follows the reset directly finds and leaves
\* the segment without image and video.
C16_ResetBeforeRegeneration ==
    [][\A i \in DOMAIN segments :
          LET old == segments[i]
              new == Find(segments', old.id)
          IN  /\ (lastEvent'.op = "regenerateImage" /\ lastEvent'.id = old.id)
                    => new.status = "idle" /\ new.imageUrl = Null /\ new.videoUrl = Null
              /\ (lastEvent'.op = "regenerateImageStart" /\ lastEvent'.id = old.id)
                    => /\ new.status = "generating-image"
                       /\ new.imageUrl = old.imageUrl
                       /\ new.videoUrl = old.videoUrl
                       /\ (lastEvent.op = "regenerateImage" /\ lastEvent.id = old.id)
                             => /\ old.status = "idle"
                                /\ new.imageUrl = Null
                                /\ new.videoUrl = Null]_vars

\* the pipeline has given both segments image and video, and the first segment,
\* regenerated afterwards, is generating its image without image and video
C16_Witness ==
    /\ lastEvent.op = "regenerateImageStart"
    /\ lastEvent.id = SegmentIds[1]
    /\ Len(runs) = 1
    /\ pipelineState.currentPhase = "complete"
    /\ pipelineState.videosGenerated = 2
    /\ Find(segments, SegmentIds[1]).status = "generating-image"
    /\ Find(segments, SegmentIds[1]).imageUrl = Null
    /\ Find(segments, SegmentIds[1]).videoUrl = Null
    /\ requests[<<"image", SegmentIds[1]>>] = 1
    /\ Find(segments, SegmentIds[2]).status = "video-success"

\* C17: a segment enters 'generating-video' only without a video, and the step
\* keeps its image: a segment that holds a video is reset to 'image-success'
\* with the video cleared before it is animated again.
C17_ReanimateGoesThroughReset ==
    [][\A i \in DOMAIN segments :
          LET old == segments[i]
              new == Find(segments', old.id)
          IN  (new.status = "generating-video" /\ old.status # "generating-video")
                 => /\ old.videoUrl = Null
                    /\ new.videoUrl = Null
                    /\ new.imageUrl = old.imageUrl]_vars

----------------------------------------------------------------------------
(* Properties of the colors and of the chroma key *)

\* the characters of a hex color, in either case
HexDigitSet ==
    {"0", "1", "2", "3", "4", "5", "6", "7", "8", "9",
     "a", "b", "c", "d", "e", "f", "A", "B", "C", "D", "E", "F"}

\* exactly six hex digits, with an optional leading '#'
IsHexColor(hex) ==
    \/ Len(hex) = 6 /\ \A i \in 1..6 : hex[i] \in HexDigitSet
    \/ Len(hex) = 7 /\ hex[1] = "#" /\ \A i \in 2..7 : hex[i] \in HexDigitSet

\* C18: the key color a pick has set is '#' followed by exactly six hex digits,
\* and hexToRgb gives back the three channels of the picked pixel; the same
\* holds when one channel of the picked pixel is replaced by any value of 0..255
\* (the conversions are pure: they are swept while no frame is in work).
C18_ColorRoundTrip ==
    lastEvent.op = "pickColor"
       => LET hex == chromaSettings.keyColor
              r == lastEvent.delta \div 65536
              g == (lastEvent.delta \div 256) % 256
              b == lastEvent.delta % 256
          IN  /\ Len(hex) = 7
              /\ hex[1] = "#"
              /\ \A i \in 2..7 : hex[i] \in HexDigitSet
              /\ hexToRgb(hex) = [r |-> r, g |-> g, b |-> b]
              /\ (imageData = <<>>) => \A x \in 0..255 :
                    /\ Len(rgbToHex(x, g, b)) = 7
                    /\ Len(rgbToHex(r, x, b)) = 7
                    /\ Len(rgbToHex(r, g, x)) = 7
                    /\ hexToRgb(rgbToHex(x, g, b)) = [r |-> x, g |-> g, b |-> b]
                    /\ hexToRgb(rgbToHex(r, x, b)) = [r |-> r, g |-> x, b |-> b]
                    /\ hexToRgb(rgbToHex(r, g, x)) = [r |-> r, g |-> g, b |-> x]

\* the pixel (15, 16, 9), whose channels r and b take one hex digit, was picked
C18_Witness ==
    /\ lastEvent.op = "pickColor"
    /\ lastEvent.delta = 65536 * 15 + 256 * 16 + 9
    /\ chromaSettings.keyColor = <<"#", "0", "f", "1", "0", "0", "9">>

\* C19: hexToRgb gives three channels in 0..255 for every key color of the
\* settings, and (0, 255, 0) for every text that is not six hex digits with an
\* optional leading '#'.
C19_HexToRgbTotal ==
    LET rgb == hexToRgb(chromaSettings.keyColor)
    IN  /\ rgb.r \in 0..255
        /\ rgb.g \in 0..255
        /\ rgb.b \in 0..255
        /\ ~IsHexColor(chromaSettings.keyColor) => rgb = [r |-> 0, g |-> 255, b |-> 0]

\* applyChromaKey has run with the key color '#0f0' and has keyed with pure
\* green: the green pixel of the frame is transparent, the red one is as it was
C19_Witness ==
    /\ lastEvent.op = "applyChromaKey"
    /\ chromaSettings.enabled
    /\ chromaSettings.keyColor = <<"#", "0", "f", "0">>
    /\ applications = 1
    /\ imageData[4] = 0
    /\ SubSeq(imageData, 5, 8) = <<200, 30, 40, 255>>

\* C20: a call of applyChromaKey with settings.enabled = false leaves every
\* byte of the image data as it was.
C20_DisabledIsIdentity ==
    [][(lastEvent'.op = "applyChromaKey" /\ ~chromaSettings.enabled)
          => imageData' = imageData]_vars

\* applyChromaKey has run twice on a frame with disabled settings that, enabled,
\* would key the frame
C20_Witness ==
    /\ lastEvent.op = "applyChromaKey"
    /\ ~chromaSettings.enabled
    /\ applications = 2
    /\ imageData = <<0, 255, 0, 255, 200, 30, 40, 255>>
    /\ applyChromaKey(imageData, [chromaSettings EXCEPT !.enabled = TRUE]) # imageData

\* the alpha bytes of an image data
Alphas(data) == [k \in 1..(Len(data) \div 4) |-> data[4 * k]]

\* C21: a call of applyChromaKey with enabled settings of tolerance 0 leaves the
\* alpha of every pixel as it was, whatever the edge softness.
C21_ZeroToleranceKeysNothing ==
    [][(lastEvent'.op = "applyChromaKey" /\ chromaSettings.enabled
           /\ chromaSettings.tolerance = 0)
          => Alphas(imageData') = Alphas(imageData)]_vars

----------------------------------------------------------------------------
(* Properties of the overlay playback *)

\* the distance of the overlay clock from the position in the segment
Drift(ov, seg, time) ==
    LET segmentTime == time - seg.timestamp
    IN  IF ov.currentTime >= segmentTime THEN ov.currentTime - segmentTime
        ELSE segmentTime - ov.currentTime

\* C22: after every playback tick that finds an active segment with a video,
\* the overlay clock is within 0.3 s of the position in the segment: an overlay
\* that was farther off is at that position, an overlay that was not is as before.
C22_OverlayClockSync ==
    [][(lastEvent'.op = "timeUpdate" /\ activeSegment' # Null
           /\ Find(segments, activeSegment').videoUrl # Null)
          => LET seg == Find(segments, activeSegment')
             IN  /\ overlayVideo'.src = seg.id
                 /\ Drift(overlayVideo', seg, currentTime') <= DriftThreshold
                 /\ IF Drift(overlayVideo, seg, currentTime') > DriftThreshold
                    THEN overlayVideo'.currentTime = currentTime' - seg.timestamp
                    ELSE overlayVideo'.currentTime = overlayVideo.currentTime]_vars

----------------------------------------------------------------------------
(* Properties of the drag protocol *)

\* C23: a drag start that arrives while a drag is in progress leaves the
\* captured drag state as it was.
C23_OneDragAtATime ==
    [][(lastEvent'.op = "dragStart" /\ segmentDrag # NoDrag)
          => segmentDrag' = segmentDrag]_vars

\* C24: a pointer move during a drag leaves the drag state alone and puts the
\* values of this move (the clamped and rounded values of the captured initial
\* values and this move's displacement) into the collection in the same step;
\* pointer up clears the drag state and leaves the collection as it was; a
\* pointer move without a drag leaves the collection as it was.
C24_LiveUpdateProtocol ==
    [][LET ev == lastEvent'
           drag == segmentDrag
           old == Find(segments, drag.segmentId)
           new == Find(segments', drag.segmentId)
           sum == drag.initialTimestamp + ev.delta
       IN  /\ ev.op = "move"
                => /\ drag # NoDrag /\ segmentDrag' = drag
                   /\ new.timestamp = Round1(Max(0, Min(duration - SegDuration(old), sum)))
           /\ ev.op = "resize-start"
                => /\ drag # NoDrag /\ segmentDrag' = drag
                   /\ new.timestamp + SegDuration(new)
                         = drag.initialTimestamp + drag.initialDuration
                   /\ new.timestamp
                         = Round1(Max(0, Min(drag.initialTimestamp + drag.initialDuration
                                                - S(MinDuration), sum)))
           /\ ev.op = "resize-end"
                => /\ drag # NoDrag /\ segmentDrag' = drag
                   /\ new.duration
                         = Round1(Max(S(MinDuration),
                                      Min(duration - drag.initialTimestamp,
                                          drag.initialDuration + ev.delta)))
           /\ ev.op = "dragEnd" => segments' = segments /\ segmentDrag' = NoDrag
           /\ ev.op = "moveIgnored" => segments' = segments /\ segmentDrag' = segmentDrag]_vars

\* a drag of two pointer moves has ended: the segment is where the second move
\* put it, 1 s after the start of the video
C24_Witness ==
    /\ lastEvent.op = "dragEnd"
    /\ segmentDrag = NoDrag
    /\ edits = 2
    /\ duration = S(60)
    /\ Find(segments, lastEvent.id).timestamp = S(1)

\* C25: a pointer move of a 'move' drag leaves the duration of the dragged
\* segment as it was, one of a 'resize-end' drag leaves its timestamp as it
\* was, and a pointer move of any drag leaves every other segment as it was,
\* wherever it stands in the collection afterwards.
C25_DragFrame ==
    [][lastEvent'.op \in {"move", "resize-start", "resize-end"}
          => LET id == segmentDrag.segmentId
             IN  /\ Len(segments') = Len(segments)
                 /\ lastEvent'.op = "move"
                       => Find(segments', id).duration = Find(segments, id).duration
                 /\ lastEvent'.op = "resize-end"
                       => Find(segments', id).timestamp = Find(segments, id).timestamp
                 /\ \A i \in DOMAIN segments :
                       segments[i].id # id
                          => /\ IndexOf(segments', segments[i].id) # 0
                             /\ Find(segments', segments[i].id) = segments[i]]_vars

\* a 'move' drag has taken the first segment of the collection behind the second
C25_Witness ==
    /\ lastEvent.op = "move"
    /\ lastEvent.id = SegmentIds[1]
    /\ segmentDrag.initialTimestamp = S(0)
    /\ segments[1].id = SegmentIds[2]
    /\ segments[2].id = SegmentIds[1]
    /\ segments[1].timestamp < segments[2].timestamp

\* the position of the segment id in the collection
Position(segs, id) == CHOOSE i \in DOMAIN segs : segs[i].id = id

\* C26: after a timestamp update two segments with equal timestamps stand in
\* the relative order they had before the update.
C26_StableResort ==
    [][lastEvent'.op \in {"move", "resize-start"}
          => \A i, j \in DOMAIN segments :
                (i < j /\ Find(segments', segments[i].id).timestamp
                             = Find(segments', segments[j].id).timestamp)
                   => Position(segments', segments[i].id)
                         < Position(segments', segments[j].id)]_vars

\* the second segment was dragged from 6 s onto the timestamp of the first
C26_Witness ==
    /\ lastEvent.op = "move"
    /\ lastEvent.id = SegmentIds[2]
    /\ segmentDrag.initialTimestamp = S(6)
    /\ segments[1].id = SegmentIds[1]
    /\ segments[2].id = SegmentIds[2]
    /\ segments[1].timestamp = S(0)
    /\ segments[2].timestamp = S(0)

----------------------------------------------------------------------------
(* Properties of the generation progress and of the pipeline phases *)

\* C27: a segment carries a generationProgress only while it is in
\* 'generating-image': none after the image succeeded, after a reset to idle,
\* after a failed image generation.
C27_ProgressOnlyWhileGenerating ==
    \A i \in DOMAIN segments :
        segments[i].generationProgress # 0 => segments[i].status = "generating-image"

----------------------------------------------------------------------------
(* Properties of the alpha applyChromaKey writes *)

\* a <= b * distance, for the distance of square d2 and b >= 0
AtMostDistance(a, b, d2) == a <= 0 \/ a * a <= b * b * d2

\* a >= b * distance, for the distance of square d2 and b >= 0
AtLeastDistance(a, b, d2) == a >= 0 /\ a * a >= b * b * d2

\* the byte alpha is a nearest byte of min(255, max(0, distance * p / q))
NearestByteOfScaled(alpha, d2, p, q) ==
    /\ alpha \in 0..255
    /\ alpha = 0 \/ AtMostDistance((2 * alpha - 1) * q, 2 * p, d2)
    /\ alpha = 255 \/ AtLeastDistance((2 * alpha + 1) * q, 2 * p, d2)

\* the byte alpha is a nearest byte of 255 * (distance - threshold) / softness,
\* threshold = 51 * tolerance / 20
NearestByteOfRamp(alpha, d2, tolerance, softness) ==
    LET g == Gcd(Gcd(2601 * tolerance, 2 * softness), 1020)
        t0 == (2601 * tolerance) \div g
        s0 == (2 * softness) \div g
        b0 == 1020 \div g
    IN  /\ alpha \in 0..255
        /\ AtMostDistance(t0 + (2 * alpha - 1) * s0, b0, d2)
        /\ AtLeastDistance(t0 + (2 * alpha + 1) * s0, b0, d2)

\* the alpha the piecewise function of the distance gives the pixel px
PiecewiseAlpha(alpha, px, settings) ==
    LET keyColor == hexToRgb(settings.keyColor)
        d2 == (px[1] - keyColor.r) * (px[1] - keyColor.r)
                 + (px[2] - keyColor.g) * (px[2] - keyColor.g)
                 + (px[3] - keyColor.b) * (px[3] - keyColor.b)
        tolerance == settings.tolerance
        softness == settings.edgeSoftness
        below == d2 * 400 < (51 * tolerance) * (51 * tolerance)
        feather == ~below /\ d2 * 400 < (51 * tolerance + 20 * softness)
                                          * (51 * tolerance + 20 * softness)
    IN  IF below THEN NearestByteOfScaled(alpha, d2, 2 * (50 + softness), tolerance)
        ELSE IF feather THEN NearestByteOfRamp(alpha, d2, tolerance, softness)
        ELSE alpha = px[4]

\* C28: a call of applyChromaKey with enabled settings writes, for every pixel,
\* the alpha of the piecewise function of the distance to the key color: below
\* the threshold min(255, max(0, (d / threshold) * 255 * (1 + softnessRange / 50))),
\* whatever the edge softness, in the feather band the linear ramp, and the
\* alpha of the pixel elsewhere.
C28_AlphaIsPiecewise ==
    [][(lastEvent'.op = "applyChromaKey" /\ chromaSettings.enabled)
          => \A k \in 1..(Len(imageData) \div 4) :
                PiecewiseAlpha(imageData'[4 * k], SubSeq(imageData, 4 * k - 3, 4 * k),
                               chromaSettings)]_vars

\* the square of the distance of the pixel k of data to the key color of settings
KeyDistanceSquared(data, k, settings) ==
    LET keyColor == hexToRgb(settings.keyColor)
    IN  (data[4 * k - 3] - keyColor.r) * (data[4 * k - 3] - keyColor.r)
           + (data[4 * k - 2] - keyColor.g) * (data[4 * k - 2] - keyColor.g)
           + (data[4 * k - 1] - keyColor.b) * (data[4 * k - 1] - keyColor.b)

\* C29: after a call of applyChromaKey with enabled settings, of two pixels
\* that were opaque the one closer to the key color has no higher alpha than
\* the one farther from it.
C29_AlphaMonotoneInDistance ==
    [][(lastEvent'.op = "applyChromaKey" /\ chromaSettings.enabled)
          => \A j, k \in 1..(Len(imageData) \div 4) :
                (/\ imageData[4 * j] = 255
                 /\ imageData[4 * k] = 255
                 /\ KeyDistanceSquared(imageData, j, chromaSettings)
                       <= KeyDistanceSquared(imageData, k, chromaSettings))
                   => imageData'[4 * j] <= imageData'[4 * k]]_vars

\* a run starts the video request of the segment s in this step
StartsVideo(r, s) ==
    /\ StartsRequest(r)
    /\ runs'[r].pc = "video-await"
    /\ RunSegment(runs'[r]) = s.id

\* C30: a run of the automatic pipeline starts a video request only when its
\* image loop is over (it awaits none of its image requests), and the segment
\* it animates is 'image-success' with an imageUrl at that moment.
C30_ImagesBeforeVideos ==
    [][\A r \in DOMAIN runs : \A i \in DOMAIN segments :
          StartsVideo(r, segments[i])
             => /\ runs[r].pc \in {"video-snapshot", "video-await"}
                /\ segments[i].status = "image-success"
                /\ segments[i].imageUrl # Null]_vars

\* C31: in every invocation of generateImageAsset the step-1 progress calls all
\* come before the step-2 ones, phase 2 is invoked only when phase 1 has given
\* an image, and after a failure of phase 1 phase 2 is not invoked, no step-2
\* progress is reported and nothing is returned.
C31_TwoPhaseOrder ==
    \A c \in DOMAIN assetCalls :
        LET call == assetCalls[c]
        IN  /\ \A i \in DOMAIN call.progress : \A j \in DOMAIN call.progress :
                  (call.progress[i].step = 2 /\ call.progress[j].step = 1) => j < i
            /\ call.green # "none" => call.scene = "scene"
            /\ call.scene = "failed"
                  => /\ call.green = "none"
                     /\ \A i \in DOMAIN call.progress : call.progress[i].step # 2
                     /\ call.result = Null
                     /\ call.pc = "rejected"

\* one invocation has failed in phase 1 after reporting progress, another has
\* returned an image after both phases
C31_Witness ==
    /\ \E c \in DOMAIN assetCalls :
          /\ assetCalls[c].scene = "failed"
          /\ assetCalls[c].progress # <<>>
    /\ \E c \in DOMAIN assetCalls :
          /\ assetCalls[c].pc = "returned"
          /\ Len(assetCalls[c].progress) = 4

\* C32: a pointer move of a 'resize-start' drag leaves the end of the dragged
\* segment where it was when the drag began: the committed timestamp plus the
\* committed duration is initialTimestamp + initialDuration.
C32_ResizeStartKeepsEnd ==
    [][lastEvent'.op = "resize-start"
          => Find(segments', lastEvent'.id).timestamp + Find(segments', lastEvent'.id).duration
                = segmentDrag.initialTimestamp + segmentDrag.initialDuration]_vars

\* the invocations of runAutomaticPipeline that have not returned
LiveRuns == {r \in DOMAIN runs : runs[r].pc # "done"}

\* C33: at most one invocation of runAutomaticPipeline is under way at any
\* time: every earlier one has returned when a new one starts.
C33_OneRunAtATime == Cardinality(LiveRuns) <= 1

\* C34: the progress counters of the pipeline never pass the number of
\* segments: imagesGenerated <= totalSegments and videosGenerated <= totalSegments.
C34_CountersBounded ==
    /\ pipelineState.imagesGenerated <= pipelineState.totalSegments
    /\ pipelineState.videosGenerated <= pipelineState.totalSegments

\* the run r returns in this step after reading the stop flag set: in the image
\* loop or in the check behind it, or at the head of an iteration of the video loop
LeavesOnStop(r) ==
    /\ stopGenerationRef
    /\ runs[r].pc # "done"
    /\ runs'[r].pc = "done"
    /\ \/ runs[r].pc = "image-await"
       \/ runs[r].pc = "video-snapshot" /\ segments # <<>>
       \/ runs[r].pc = "video-await" /\ runs[r].i < Len(runs[r].snapshot)

\* C35: a run that leaves the image loop or the video loop because it read the
\* stop flag ends with isRunning = false and with currentPhase as it was, never
\* 'complete'.
C35_NoCompleteAfterStop ==
    [][\A r \in DOMAIN runs :
          LeavesOnStop(r)
             => /\ ~pipelineState'.isRunning
                /\ pipelineState'.currentPhase = pipelineState.currentPhase
                /\ pipelineState'.currentPhase # "complete"]_vars

\* C36: a run of the pipeline that was started for a discarded analysis
\* changes no segment of the current analysis and starts no further generation
\* request.
C36_SessionIsolation ==
    [][\A r \in discarded :
          /\ ~StartsRequest(r)
          /\ runs'[r] # runs[r] => segments' = segments]_vars

\* the copy of the detail view and the segment of the same id in the collection
\* agree on status, imageUrl, videoUrl and error
CopyAgrees(copy, segs) ==
    /\ IndexOf(segs, copy.id) # 0
    /\ Core(copy) = Core(Find(segs, copy.id))

\* the start, the success and the failure of a generation the detail view called
DetailGenerationOps ==
    {"detailGenerateImage", "detailAnimate", "detailImageSuccess", "detailImageError",
     "detailVideoSuccess", "detailVideoError"}

\* C37: a start, success or failure of an image or video generation for the
\* segment shown in the detail view, reached from a state where the copy
\* agreed with the collection, leaves the copy in agreement with the
\* collection on status, imageUrl, videoUrl and error.
C37_DetailCopyAgrees ==
    [][(/\ lastEvent'.op \in DetailGenerationOps
        /\ appActiveSegment # NoSegment
        /\ appActiveSegment' # NoSegment
        /\ appActiveSegment.id = lastEvent'.id
        /\ CopyAgrees(appActiveSegment, segments))
          => CopyAgrees(appActiveSegment', segments')]_vars

\* C38: status and media of every segment are consistent: 'video-success' has
\* a videoUrl and an imageUrl, 'image-success' and 'generating-video' have an
\* imageUrl, 'idle' has neither imageUrl nor videoUrl.
C38_StatusMediaConsistent ==
    \A i \in DOMAIN segments :
        LET s == segments[i]
        IN  /\ s.status = "video-success" => s.videoUrl # Null /\ s.imageUrl # Null
            /\ s.status \in {"image-success", "generating-video"} => s.imageUrl # Null
            /\ s.status = "idle" => s.imageUrl = Null /\ s.videoUrl = Null

\* the run r returns in this step
RunEnds(r) == runs[r].pc # "done" /\ runs'[r].pc = "done"

\* a run other than r awaits a generation for the segment id
OtherRunGenerates(r, id, rs) ==
    \E q \in DOMAIN rs :
        q # r /\ rs[q].pc \in {"image-await", "video-await"} /\ RunSegment(rs[q]) = id

\* C39: when every awaited external call settles, every run of the pipeline
\* that was started ends; it ends with isRunning = false, and a segment that is
\* 'generating-image' or 'generating-video' at that point is one another run
\* is generating for.
C39_PipelineTerminates ==
    /\ \A r \in 1..MaxRuns :
          (r \in DOMAIN runs) ~> (r \in DOMAIN runs /\ runs[r].pc = "done")
    /\ [][\A r \in DOMAIN runs :
             RunEnds(r)
                => /\ ~pipelineState'.isRunning
                   /\ \A i \in DOMAIN segments' :
                         segments'[i].status \in {"generating-image", "generating-video"}
                            => OtherRunGenerates(r, segments'[i].id, runs')]_vars

\* two runs have ended, the first one stopped and the second one started by
\* Resume, and a video was made
C39_Witness ==
    /\ Len(runs) = 2
    /\ \A r \in DOMAIN runs : runs[r].pc = "done"
    /\ ~pipelineState.isRunning
    /\ pipelineState.isPaused = FALSE
    /\ \E i \in DOMAIN segments : segments[i].status = "video-success"
    /\ \A i \in DOMAIN segments :
          segments[i].status \notin {"generating-image", "generating-video"}

====
